---- MODULE Spec2Model ----
(***************************************************************************)
(* Verification model of loian/fuzzylib: fuzzy operators, rule evaluation, *)
(* the Mamdani inference engine and its sampling defuzzifiers.             *)
(*                                                                         *)
(* Numbers.  A float64 is modelled exactly as a dual number                *)
(*     (n + l*delta) / d       written <<n, l, d>>,  d > 0,                *)
(* where delta stands for 1e-10: a quantity smaller than the comparison    *)
(* tolerance epsilon = 1e-9 of inference.go and far smaller than every gap *)
(* between two distinct coarse parts n/d the model produces.  Products of  *)
(* two fine parts (delta^2 = 1e-20) are below float64 resolution and are   *)
(* dropped.  Order is lexicographic on (coarse, fine).                     *)
(***************************************************************************)
EXTENDS Integers, Sequences, FiniteSets, TLC

VARIABLES
    DefaultResolution,  \* inference.DefaultResolution (package variable the caller may adjust)
    varHeap,            \* the *variable.FuzzyVariable objects, by pointer
    ruleHeap,           \* the *rule.Rule objects, by pointer
    fis,                \* the MamdaniInferenceSystem
    arg,                \* the arguments of the pure function under study
    ret                 \* the last call and what it returned

vars == <<DefaultResolution, varHeap, ruleHeap, fis, arg, ret>>

----------------------------------------------------------------------------
(* Arithmetic                                                              *)

Abs(i) == IF i < 0 THEN -i ELSE i

RECURSIVE Gcd(_, _)
Gcd(a, b) == IF b = 0 THEN Abs(a) ELSE Gcd(b, a % b)

\* the float64 value NaN, written 0/0: arithmetic with it gives NaN and every
\* ordered comparison with it is false
NaN == <<0, 0, 0>>

Norm(n, l, d) ==
    IF d = 0 THEN NaN
    ELSE LET s == IF d < 0 THEN -1 ELSE 1
             g == Gcd(Gcd(Abs(n), Abs(l)), Abs(d))
         IN  <<(s * n) \div g, (s * l) \div g, (s * d) \div g>>

R(n, d) == Norm(n, 0, d)
I(n) == <<n, 0, 1>>
Zero == I(0)
One == I(1)

NAdd(a, b) == Norm(a[1] * b[3] + b[1] * a[3], a[2] * b[3] + b[2] * a[3], a[3] * b[3])
NNeg(a) == <<-a[1], -a[2], a[3]>>
NSub(a, b) == NAdd(a, NNeg(b))
NMul(a, b) == Norm(a[1] * b[1], a[1] * b[2] + a[2] * b[1], a[3] * b[3])
\* a / b.  With a coarse divisor: (a1 + a2*delta)(b1 - b2*delta) / b1^2.  With a
\* purely fine divisor the dividend of every quotient the program forms is
\* purely fine too (a sum of x*m over a sum of m), and delta cancels.
NDiv(a, b) ==
    IF b[1] # 0
    THEN Norm(a[1] * b[3] * b[1], (a[2] * b[1] - a[1] * b[2]) * b[3], a[3] * b[1] * b[1])
    ELSE Norm(a[2] * b[3], 0, a[3] * b[2])
NSign(a) == IF a[1] # 0 THEN (IF a[1] > 0 THEN 1 ELSE -1)
            ELSE IF a[2] > 0 THEN 1 ELSE IF a[2] < 0 THEN -1 ELSE 0
NLt(a, b) == NSign(NSub(a, b)) < 0
NLe(a, b) == a[3] # 0 /\ b[3] # 0 /\ NSign(NSub(a, b)) <= 0
NGt(a, b) == NLt(b, a)
NGe(a, b) == NLe(b, a)
NAbs(a) == IF NSign(a) < 0 THEN NNeg(a) ELSE a
NMin(a, b) == IF NLt(b, a) THEN b ELSE a
NMax(a, b) == IF NGt(b, a) THEN b ELSE a

\* the one element of a singleton set; {e(v) : v \in {a}} is e with v bound to
\* the value of a, which is then computed once (a local variable of the code)
Only(S) == CHOOSE x \in S : TRUE

RECURSIVE SeqToSet(_)
SeqToSet(s) == IF s = <<>> THEN {} ELSE {Head(s)} \cup SeqToSet(Tail(s))

----------------------------------------------------------------------------
(* operators/operators.go                                                  *)

Nil == [type |-> "nil"]

\* &InvalidMembershipError{Value: v}
InvalidMembershipError(v) == [type |-> "InvalidMembershipError", Value |-> v]

\* a variant of MinLoop that keeps the larger value
RECURSIVE MinLoop_KeepLarger(_, _)
MinLoop_KeepLarger(rest, acc) ==
    IF rest = <<>> THEN acc
    ELSE LET raw == Head(rest)
             low == NLt(raw, Zero)
             high == ~low /\ NGt(raw, One)
             v == IF low THEN Zero ELSE IF high THEN One ELSE raw
             e == IF (low \/ high) /\ acc[2] = Nil
                  THEN InvalidMembershipError(raw) ELSE acc[2]
             m == IF NGt(v, acc[1]) THEN v ELSE acc[1]
         IN  MinLoop_KeepLarger(Tail(rest), <<m, e>>)

\* the loop over values[1:] of MinOperator.Apply; acc = <<min, invalidErr>>
RECURSIVE MinLoop(_, _)
MinLoop(rest, acc) ==
    IF rest = <<>> THEN acc
    ELSE LET raw == Head(rest)
             low == NLt(raw, Zero)
             high == ~low /\ NGt(raw, One)
             v == IF low THEN Zero ELSE IF high THEN One ELSE raw
             e == IF (low \/ high) /\ acc[2] = Nil
                  THEN InvalidMembershipError(raw) ELSE acc[2]
             m == IF NLt(v, acc[1]) THEN v ELSE acc[1]
         IN  MinLoop(Tail(rest), <<m, e>>)

MinOperatorApply(values) ==
    IF Len(values) = 0 THEN [val |-> Zero, err |-> Nil]
    ELSE LET first == values[1]
             low == NLt(first, Zero)
             high == ~low /\ NGt(first, One)
             min0 == IF low THEN Zero ELSE IF high THEN One ELSE first
             err0 == IF low \/ high THEN InvalidMembershipError(first) ELSE Nil
         IN  Only({[val |-> IF NLt(out[1], Zero) THEN Zero
                            ELSE IF NGt(out[1], One) THEN One ELSE out[1],
                    err |-> out[2]] :
                   out \in {MinLoop(Tail(values), <<min0, err0>>)}})

\* the loop over values[1:] of MaxOperator.Apply; acc = <<max, invalidErr>>
RECURSIVE MaxLoop(_, _)
MaxLoop(rest, acc) ==
    IF rest = <<>> THEN acc
    ELSE LET raw == Head(rest)
             low == NLt(raw, Zero)
             high == ~low /\ NGt(raw, One)
             v == IF low THEN Zero ELSE IF high THEN One ELSE raw
             e == IF (low \/ high) /\ acc[2] = Nil
                  THEN InvalidMembershipError(raw) ELSE acc[2]
             m == IF NGt(v, acc[1]) THEN v ELSE acc[1]
         IN  MaxLoop(Tail(rest), <<m, e>>)

MaxOperatorApply(values) ==
    IF Len(values) = 0 THEN [val |-> Zero, err |-> Nil]
    ELSE LET first == values[1]
             low == NLt(first, Zero)
             high == ~low /\ NGt(first, One)
             max0 == IF low THEN Zero ELSE IF high THEN One ELSE first
             err0 == IF low \/ high THEN InvalidMembershipError(first) ELSE Nil
         IN  Only({[val |-> IF NLt(out[1], Zero) THEN Zero
                            ELSE IF NGt(out[1], One) THEN One ELSE out[1],
                    err |-> out[2]] :
                   out \in {MaxLoop(Tail(values), <<max0, err0>>)}})

NotOperatorApply(values) ==
    IF Len(values) = 0 THEN [val |-> One, err |-> Nil]
    ELSE LET v0 == values[1]
             low == NLt(v0, Zero)
             high == ~low /\ NGt(v0, One)
             v == IF low THEN Zero ELSE IF high THEN One ELSE v0
             e == IF low \/ high THEN InvalidMembershipError(v0) ELSE Nil
         IN  [val |-> NSub(One, v), err |-> e]

\* dynamic dispatch of Operator.Apply on the package values AND, OR, NOT
Apply(op, values) ==
    CASE op = "AND" -> MinOperatorApply(values)
      [] op = "OR" -> MaxOperatorApply(values)
      [] op = "NOT" -> NotOperatorApply(values)

----------------------------------------------------------------------------
(* membership functions and fuzzy sets                                     *)

Triangular(a, b, c) == [kind |-> "Triangular", A |-> a, B |-> b, C |-> c]
Trapezoidal(a, b, c, d) == [kind |-> "Trapezoidal", A |-> a, B |-> b, C |-> c, D |-> d]

TriangularEvaluate(t, x) ==
    IF t.A = t.B /\ t.B = t.C THEN (IF x = t.A THEN One ELSE Zero)
    ELSE IF NLe(x, t.A) \/ NGe(x, t.C) THEN Zero
    ELSE IF x = t.B THEN One
    ELSE IF NLt(x, t.B)
         THEN (IF t.B = t.A THEN One ELSE NDiv(NSub(x, t.A), NSub(t.B, t.A)))
         ELSE (IF t.C = t.B THEN One ELSE NDiv(NSub(t.C, x), NSub(t.C, t.B)))

TrapezoidalEvaluate(t, x) ==
    IF t.A = t.B /\ t.B = t.C /\ t.C = t.D THEN (IF x = t.A THEN One ELSE Zero)
    ELSE IF NLe(x, t.A) \/ NGe(x, t.D) THEN Zero
    ELSE IF NGe(x, t.B) /\ NLe(x, t.C) THEN One
    ELSE IF NLt(x, t.B)
         THEN (IF t.B = t.A THEN One ELSE NDiv(NSub(x, t.A), NSub(t.B, t.A)))
         ELSE (IF t.D = t.C THEN One ELSE NDiv(NSub(t.D, x), NSub(t.D, t.C)))

\* MembershipFunction.Evaluate, dispatched on the shape
MFEvaluate(mf, x) ==
    IF mf.kind = "Triangular" THEN TriangularEvaluate(mf, x) ELSE TrapezoidalEvaluate(mf, x)

FuzzySet(name, mf) == [Name |-> name, MembershipFunc |-> mf]
FuzzySetEvaluate(fs, x) == MFEvaluate(fs.MembershipFunc, x)

----------------------------------------------------------------------------
(* variable/variable.go                                                    *)

\* NewFuzzyVariable: a variable with an empty Sets map (a function whose
\* domain is the set of keys)
NewFuzzyVariable(name, minValue, maxValue) ==
    [Name |-> name, MinValue |-> minValue, MaxValue |-> maxValue, Sets |-> <<>>]

Fuzzify(fv, value) ==
    [name \in DOMAIN fv.Sets |-> FuzzySetEvaluate(fv.Sets[name], value)]

----------------------------------------------------------------------------
(* rule package                                                            *)

RuleCondition(variable, set, negated) ==
    [Variable |-> variable, Set |-> set, Negated |-> negated]

\* a variant of EvaluateValues that negates the 0.0 of an absent key
EvaluateValues_NegateAbsent(r, membershipMap) ==
    [i \in 1..Len(r.Conditions) |->
        LET cond == r.Conditions[i]
            d == IF cond.Variable \in DOMAIN membershipMap
                    /\ cond.Set \in DOMAIN membershipMap[cond.Variable]
                 THEN membershipMap[cond.Variable][cond.Set]
                 ELSE Zero
        IN  IF cond.Negated THEN NSub(One, d) ELSE d]

\* the values slice built by the loop of Rule.Evaluate (zero-initialised by make)
EvaluateValues(r, membershipMap) ==
    [i \in 1..Len(r.Conditions) |->
        LET cond == r.Conditions[i]
        IN  IF cond.Variable \in DOMAIN membershipMap
            THEN IF cond.Set \in DOMAIN membershipMap[cond.Variable]
                 THEN IF cond.Negated
                      THEN NSub(One, membershipMap[cond.Variable][cond.Set])
                      ELSE membershipMap[cond.Variable][cond.Set]
                 ELSE Zero
            ELSE Zero]

ErrNoConditions == [type |-> "cannot evaluate rule with no conditions"]

RuleEvaluate(r, membershipMap) ==
    IF Len(r.Conditions) = 0 THEN [val |-> Zero, err |-> ErrNoConditions]
    ELSE Only({IF out.err # Nil
               THEN [val |-> Zero,
                     err |-> [type |-> "error applying operator", Variable |-> r.Output.Variable,
                              Set |-> r.Output.Set, cause |-> out.err]]
               ELSE [val |-> NMul(out.val, r.Weight), err |-> Nil] :
               out \in {Apply(r.Operator, EvaluateValues(r, membershipMap))}})

----------------------------------------------------------------------------
(* inference/inference.go: defuzzification                                 *)

\* const epsilon = 1e-9, i.e. ten units of delta
epsilon == <<0, 10, 1>>

ErrNoRulesFired == [type |-> "no rules fired: all membership degrees are zero"]

\* the inner loop "for setName, strength := range memberships" shared by the
\* three defuzzifiers; keys = the entries not yet visited, acc = the running
\* maximum.  The running maximum of a set does not depend on the visiting order.
RECURSIVE RangeMemberships(_, _, _, _, _)
RangeMemberships(outputVar, memberships, x, keys, acc) ==
    IF keys = {} THEN acc
    ELSE LET setName == CHOOSE k \in keys : TRUE
         IN  RangeMemberships(outputVar, memberships, x, keys \ {setName},
                 IF setName \in DOMAIN outputVar.Sets
                 THEN Only({IF NGt(degree, acc) THEN degree ELSE acc :
                            degree \in {NMul(FuzzySetEvaluate(outputVar.Sets[setName], x),
                                             memberships[setName])}})
                 ELSE acc)

currentMax(outputVar, memberships, x) ==
    RangeMemberships(outputVar, memberships, x, DOMAIN memberships, Zero)

\* step := (MaxValue - MinValue) / float64(resolution)
Step(outputVar, resolution) ==
    NDiv(NSub(outputVar.MaxValue, outputVar.MinValue), I(resolution))

\* floor(log2(n/d)) for positive integers n, d: the binary exponent of n/d
RECURSIVE FloorLog2(_, _)
FloorLog2(n, d) ==
    IF n >= 2 * d THEN FloorLog2(n, 2 * d) + 1
    ELSE IF n < d THEN FloorLog2(2 * n, d) - 1
    ELSE 0

\* b^k mod d, by repeated squaring
RECURSIVE ModExp(_, _, _)
ModExp(b, k, d) ==
    IF k = 0 THEN 1 % d
    ELSE IF k % 2 = 0 THEN ModExp((b * b) % d, k \div 2, d)
    ELSE (b * ModExp(b, k - 1, d)) % d

\* (a * 2^k) mod d
Pow2Mod(a, k, d) == ((a % d) * ModExp(2, k, d)) % d

RECURSIVE Pow2(_)
Pow2(k) == IF k = 0 THEN 1 ELSE 2 * Pow2(k - 1)

\* float64(r)*step for step := n/float64(r) (n, r positive integers), in
\* IEEE 754 binary64 with round to nearest: 1 when the product is the double
\* next above n, -1 when it is the double next below n, 0 when it is n.  The
\* quotient keeps 53 bits, so its error is e/(d*2^k) with k = 52 - exponent;
\* the product is n + g*e/2^k, rounded at the spacing 2^(k-kn) of the doubles
\* around n (half of that below a power of two).
ProductUlps(n, r) ==
    LET g == Gcd(n, r)
        d == r \div g
        k == 52 - FloorLog2(n \div g, d)
        kn == 52 - FloorLog2(n, 1)
        rem == Pow2Mod(n \div g, k, d)
        e == IF 2 * rem > d THEN d - rem ELSE -rem
        u == Pow2(k - kn)
    IN  IF rem = 0 THEN 0
        ELSE IF 2 * g * e > u THEN 1
        ELSE IF Pow2(FloorLog2(n, 1)) = n /\ 4 * g * e < -u THEN -1
        ELSE IF 2 * g * e < -u THEN -1
        ELSE 0

\* x := MinValue + float64(i)*step.  The rounding of the quotient step and of
\* the product is kept for the sample at the upper end of a domain [0, n], n a
\* positive integer, one unit in the last place counted as delta; the other
\* sample points are taken as exact.
SampleX(outputVar, step, i) ==
    IF /\ outputVar.MinValue = Zero /\ i > 0
       /\ outputVar.MaxValue[2] = 0 /\ outputVar.MaxValue[3] = 1
       /\ NMul(I(i), step) = outputVar.MaxValue
    THEN <<outputVar.MaxValue[1], ProductUlps(outputVar.MaxValue[1], i), 1>>
    ELSE NAdd(outputVar.MinValue, NMul(I(i), step))

\* a variant of COGLoop that leaves out the last sample point
RECURSIVE COGLoop_NoLastPoint(_, _, _, _, _, _)
COGLoop_NoLastPoint(outputVar, memberships, resolution, step, i, acc) ==
    IF i >= resolution THEN acc
    ELSE COGLoop_NoLastPoint(outputVar, memberships, resolution, step, i + 1,
             Only({<<NAdd(acc[1], NMul(xi, maxMembership)), NAdd(acc[2], maxMembership)>> :
                   xi \in {SampleX(outputVar, step, i)},
                   maxMembership \in {currentMax(outputVar, memberships,
                                                 SampleX(outputVar, step, i))}}))

\* for i := 0; i <= resolution; i++ of defuzzifyCOGWithResolution; acc = <<numerator, denominator>>
RECURSIVE COGLoop(_, _, _, _, _, _)
COGLoop(outputVar, memberships, resolution, step, i, acc) ==
    IF i > resolution THEN acc
    ELSE COGLoop(outputVar, memberships, resolution, step, i + 1,
             Only({<<NAdd(acc[1], NMul(xi, maxMembership)), NAdd(acc[2], maxMembership)>> :
                   xi \in {SampleX(outputVar, step, i)},
                   maxMembership \in {currentMax(outputVar, memberships,
                                                 SampleX(outputVar, step, i))}}))

defuzzifyCOGWithResolution(outputVar, memberships, resolution) ==
    IF DOMAIN memberships = {} THEN [val |-> Zero, err |-> ErrNoRulesFired]
    ELSE LET res == IF resolution <= 0 THEN DefaultResolution ELSE resolution
         IN  Only({IF sums[2] = Zero THEN [val |-> Zero, err |-> ErrNoRulesFired]
                   ELSE [val |-> NDiv(sums[1], sums[2]), err |-> Nil] :
                   sums \in {COGLoop(outputVar, memberships, res, Step(outputVar, res), 0,
                                     <<Zero, Zero>>)}})

\* a variant of MOMLoop that keeps the first sample point
RECURSIVE MOMLoop_KeepFirst(_, _, _, _, _, _)
MOMLoop_KeepFirst(outputVar, memberships, resolution, step, i, acc) ==
    IF i > resolution THEN acc
    ELSE MOMLoop_KeepFirst(outputVar, memberships, resolution, step, i + 1,
             Only({IF i = 0 THEN <<cur, <<xi>> >> ELSE acc :
                   xi \in {SampleX(outputVar, step, i)},
                   cur \in {currentMax(outputVar, memberships, SampleX(outputVar, step, i))}}))

\* for i := 0; i <= resolution; i++ of defuzzifyMOMWithResolution; acc = <<maxMembership, points>>
RECURSIVE MOMLoop(_, _, _, _, _, _)
MOMLoop(outputVar, memberships, resolution, step, i, acc) ==
    IF i > resolution THEN acc
    ELSE MOMLoop(outputVar, memberships, resolution, step, i + 1,
             Only({IF i = 0 \/ NGt(cur, acc[1]) THEN <<cur, <<xi>> >>
                   ELSE IF NLt(NAbs(NSub(cur, acc[1])), epsilon)
                        THEN <<acc[1], Append(acc[2], xi)>>
                        ELSE acc :
                   xi \in {SampleX(outputVar, step, i)},
                   cur \in {currentMax(outputVar, memberships, SampleX(outputVar, step, i))}}))

RECURSIVE SumSeq(_)
SumSeq(s) == IF s = <<>> THEN Zero ELSE NAdd(Head(s), SumSeq(Tail(s)))

defuzzifyMOMWithResolution(outputVar, memberships, resolution) ==
    IF DOMAIN memberships = {} THEN [val |-> Zero, err |-> ErrNoRulesFired]
    ELSE LET res == IF resolution <= 0 THEN DefaultResolution ELSE resolution
         IN  Only({IF Len(out[2]) = 0 \/ out[1] = Zero
                   THEN [val |-> Zero, err |-> ErrNoRulesFired]
                   ELSE [val |-> NDiv(SumSeq(out[2]), I(Len(out[2]))), err |-> Nil] :
                   out \in {MOMLoop(outputVar, memberships, res, Step(outputVar, res), 0,
                                    <<Zero, <<>> >>)}})

\* a variant of FOMLoop that moves to a later point of equal membership
RECURSIVE FOMLoop_LastOfMaximum(_, _, _, _, _, _)
FOMLoop_LastOfMaximum(outputVar, memberships, resolution, step, i, acc) ==
    IF i > resolution THEN acc
    ELSE FOMLoop_LastOfMaximum(outputVar, memberships, resolution, step, i + 1,
             Only({IF NGe(cur, acc[1]) THEN <<cur, xi>> ELSE acc :
                   xi \in {SampleX(outputVar, step, i)},
                   cur \in {currentMax(outputVar, memberships, SampleX(outputVar, step, i))}}))

\* for i := 0; i <= resolution; i++ of defuzzifyFOMWithResolution; acc = <<maxMembership, result>>
RECURSIVE FOMLoop(_, _, _, _, _, _)
FOMLoop(outputVar, memberships, resolution, step, i, acc) ==
    IF i > resolution THEN acc
    ELSE FOMLoop(outputVar, memberships, resolution, step, i + 1,
             Only({IF NGt(cur, acc[1]) THEN <<cur, xi>> ELSE acc :
                   xi \in {SampleX(outputVar, step, i)},
                   cur \in {currentMax(outputVar, memberships, SampleX(outputVar, step, i))}}))

defuzzifyFOMWithResolution(outputVar, memberships, resolution) ==
    IF DOMAIN memberships = {} THEN [val |-> Zero, err |-> ErrNoRulesFired]
    ELSE LET res == IF resolution <= 0 THEN DefaultResolution ELSE resolution
         IN  Only({IF out[1] = Zero THEN [val |-> Zero, err |-> ErrNoRulesFired]
                   ELSE [val |-> out[2], err |-> Nil] :
                   out \in {FOMLoop(outputVar, memberships, res, Step(outputVar, res), 0,
                                    <<Zero, outputVar.MinValue>>)}})

----------------------------------------------------------------------------
(* inference/inference.go: the engine                                      *)

DefuzzCOG == "centroid"
DefuzzMOM == "mom"
DefuzzFOM == "fom"
DefuzzLOM == "lom"
DefuzzSOM == "som"

NewMamdaniInferenceSystem ==
    [InputVariables |-> <<>>, OutputVariables |-> <<>>, Rules |-> <<>>,
     Resolution |-> DefaultResolution, DefuzzMethod |-> DefuzzMOM]

\* m[k] = v on a Go map
MapPut(m, k, v) == [j \in DOMAIN m \cup {k} |-> IF j = k THEN v ELSE m[j]]

\* a variant of AddRuleConditions that does not look for the set
RECURSIVE AddRuleConditions_NoSetCheck(_, _, _, _)
AddRuleConditions_NoSetCheck(f, heap, conds, i) ==
    IF i > Len(conds) THEN Nil
    ELSE IF conds[i].Variable \notin DOMAIN f.InputVariables
         THEN [type |-> "non-existent input variable", index |-> i,
               Variable |-> conds[i].Variable]
         ELSE AddRuleConditions_NoSetCheck(f, heap, conds, i + 1)

\* the loop "for i, cond := range r.Conditions" of AddRule: the first failing
\* condition decides the error
RECURSIVE AddRuleConditions(_, _, _, _)
AddRuleConditions(f, heap, conds, i) ==
    IF i > Len(conds) THEN Nil
    ELSE LET cond == conds[i]
         IN  IF cond.Variable \notin DOMAIN f.InputVariables
             THEN [type |-> "non-existent input variable", index |-> i, Variable |-> cond.Variable]
             ELSE IF cond.Set \notin DOMAIN heap[f.InputVariables[cond.Variable]].Sets
             THEN [type |-> "non-existent input set", index |-> i, Set |-> cond.Set,
                   Variable |-> cond.Variable]
             ELSE AddRuleConditions(f, heap, conds, i + 1)

\* a variant of AddRuleErr that does not look for the output set
AddRuleErr_NoOutputSetCheck(f, heap, r) ==
    IF Len(r.Conditions) = 0 THEN [type |-> "rule must have at least one condition"]
    ELSE IF r.Output.Variable \notin DOMAIN f.OutputVariables
    THEN [type |-> "non-existent output variable", Variable |-> r.Output.Variable]
    ELSE AddRuleConditions(f, heap, r.Conditions, 1)

\* AddRule(r): the error it returns
AddRuleErr(f, heap, r) ==
    IF Len(r.Conditions) = 0 THEN [type |-> "rule must have at least one condition"]
    ELSE IF r.Output.Variable \notin DOMAIN f.OutputVariables
    THEN [type |-> "non-existent output variable", Variable |-> r.Output.Variable]
    ELSE IF r.Output.Set \notin DOMAIN heap[f.OutputVariables[r.Output.Variable]].Sets
    THEN [type |-> "non-existent output set", Set |-> r.Output.Set, Variable |-> r.Output.Variable]
    ELSE AddRuleConditions(f, heap, r.Conditions, 1)

\* AddRule(r), r a pointer: the engine after the call
AddRuleFis(f, heap, rheap, r) ==
    IF AddRuleErr(f, heap, rheap[r]) # Nil THEN f
    ELSE [f EXCEPT !.Rules = Append(f.Rules, r)]

\* fmt's %.2f of a float: the number of hundredths, rounded half to even
Fmt2(v) ==
    LET q == (v[1] * 100) \div v[3]
        rem == (v[1] * 100) % v[3]
    IN  IF 2 * rem > v[3] \/ (2 * rem = v[3] /\ q % 2 = 1) THEN q + 1 ELSE q

ErrNoInputVariables == [type |-> "inference system has no input variables"]
ErrNoOutputVariables == [type |-> "inference system has no output variables"]
ErrNoRules == [type |-> "inference system has no rules"]
ErrMissingInput(varName) == [type |-> "missing required input variable: %s", varName |-> varName]
ErrOutOfBounds(value, varName, inputVar) ==
    [type |-> "input value %.2f for variable '%s' is out of bounds [%.2f, %.2f]",
     value |-> Fmt2(value), varName |-> varName,
     min |-> Fmt2(inputVar.MinValue), max |-> Fmt2(inputVar.MaxValue)]

\* a variant of InferValidate whose bounds are exclusive
RECURSIVE InferValidate_Exclusive(_, _, _, _, _)
InferValidate_Exclusive(f, heap, inputs, order, i) ==
    IF i > Len(order) THEN Nil
    ELSE LET varName == order[i]
             inputVar == heap[f.InputVariables[varName]]
         IN  IF varName \notin DOMAIN inputs THEN ErrMissingInput(varName)
             ELSE IF NLe(inputs[varName], inputVar.MinValue) \/ NGe(inputs[varName], inputVar.MaxValue)
             THEN ErrOutOfBounds(inputs[varName], varName, inputVar)
             ELSE InferValidate_Exclusive(f, heap, inputs, order, i + 1)

\* "for varName, inputVar := range fis.InputVariables" of Infer, visiting the
\* map in the order given (Go leaves the order of a map range unspecified)
RECURSIVE InferValidate(_, _, _, _, _)
InferValidate(f, heap, inputs, order, i) ==
    IF i > Len(order) THEN Nil
    ELSE LET varName == order[i]
             inputVar == heap[f.InputVariables[varName]]
         IN  IF varName \notin DOMAIN inputs THEN ErrMissingInput(varName)
             ELSE IF NLt(inputs[varName], inputVar.MinValue) \/ NGt(inputs[varName], inputVar.MaxValue)
             THEN ErrOutOfBounds(inputs[varName], varName, inputVar)
             ELSE InferValidate(f, heap, inputs, order, i + 1)

\* Step 1 of Infer: fuzzification of the inputs that name an input variable
InferFuzzify(f, heap, inputs) ==
    [varName \in DOMAIN inputs \cap DOMAIN f.InputVariables |->
        Fuzzify(heap[f.InputVariables[varName]], inputs[varName])]

\* a variant of InferRules in which the last rule of a set decides its strength
RECURSIVE InferRules_LastWins(_, _, _, _, _)
InferRules_LastWins(f, rheap, membershipMap, i, acc) ==
    IF i > Len(f.Rules) THEN acc
    ELSE LET r == rheap[f.Rules[i]]
             om == acc.outputMemberships
             ov == r.Output.Variable
             os == r.Output.Set
         IN  Only({IF ev.err # Nil
                   THEN [err |-> [type |-> "error evaluating rule", cause |-> ev.err],
                         outputMemberships |-> om]
                   ELSE InferRules_LastWins(f, rheap, membershipMap, i + 1,
                            IF ov \in DOMAIN om
                            THEN [acc EXCEPT !.outputMemberships =
                                      MapPut(om, ov, MapPut(om[ov], os, ev.val))]
                            ELSE acc) :
                   ev \in {RuleEvaluate(r, membershipMap)}})

\* Step 2 of Infer: "for _, r := range fis.Rules"; acc = [err, outputMemberships]
RECURSIVE InferRules(_, _, _, _, _)
InferRules(f, rheap, membershipMap, i, acc) ==
    IF i > Len(f.Rules) THEN acc
    ELSE LET r == rheap[f.Rules[i]]
             om == acc.outputMemberships
             ov == r.Output.Variable
             os == r.Output.Set
         IN  Only({IF ev.err # Nil
                   THEN [err |-> [type |-> "error evaluating rule", cause |-> ev.err],
                         outputMemberships |-> om]
                   ELSE InferRules(f, rheap, membershipMap, i + 1,
                            IF ov \in DOMAIN om
                            THEN IF os \in DOMAIN om[ov]
                                 THEN IF NGt(ev.val, om[ov][os])
                                      THEN [acc EXCEPT !.outputMemberships =
                                                MapPut(om, ov, MapPut(om[ov], os, ev.val))]
                                      ELSE acc
                                 ELSE [acc EXCEPT !.outputMemberships =
                                           MapPut(om, ov, MapPut(om[ov], os, ev.val))]
                            ELSE acc) :
                   ev \in {RuleEvaluate(r, membershipMap)}})

\* a variant of Defuzzify whose case for first of maximum lists "fom" alone
Defuzzify_FomOnly(method, outputVar, memberships, resolution) ==
    CASE method = DefuzzCOG -> defuzzifyCOGWithResolution(outputVar, memberships, resolution)
      [] method = DefuzzFOM -> defuzzifyFOMWithResolution(outputVar, memberships, resolution)
      [] OTHER -> defuzzifyMOMWithResolution(outputVar, memberships, resolution)

\* the switch on fis.DefuzzMethod in Step 3
Defuzzify(method, outputVar, memberships, resolution) ==
    CASE method = DefuzzCOG -> defuzzifyCOGWithResolution(outputVar, memberships, resolution)
      [] method = DefuzzMOM -> defuzzifyMOMWithResolution(outputVar, memberships, resolution)
      [] method \in {DefuzzFOM, DefuzzLOM, DefuzzSOM} ->
            defuzzifyFOMWithResolution(outputVar, memberships, resolution)
      [] OTHER -> defuzzifyMOMWithResolution(outputVar, memberships, resolution)

\* a variant of InferDefuzz that leaves out a variable whose defuzzification fails
RECURSIVE InferDefuzz_SkipFailed(_, _, _, _, _, _)
InferDefuzz_SkipFailed(f, heap, outputMemberships, order, i, acc) ==
    IF i > Len(order) THEN acc
    ELSE LET varName == order[i]
         IN  Only({InferDefuzz_SkipFailed(f, heap, outputMemberships, order, i + 1,
                       IF out.err # Nil THEN acc
                       ELSE [acc EXCEPT !.results = MapPut(acc.results, varName, out.val)]) :
                   out \in {Defuzzify(f.DefuzzMethod, heap[f.OutputVariables[varName]],
                                      outputMemberships[varName], f.Resolution)}})

\* a variant of InferDefuzz that returns the outputs found before a failure
RECURSIVE InferDefuzz_KeepEarlier(_, _, _, _, _, _)
InferDefuzz_KeepEarlier(f, heap, outputMemberships, order, i, acc) ==
    IF i > Len(order) THEN acc
    ELSE LET varName == order[i]
         IN  Only({IF out.err # Nil
                   THEN [err |-> [type |-> "defuzzification failed for variable",
                                  varName |-> varName, cause |-> out.err],
                         results |-> acc.results]
                   ELSE InferDefuzz_KeepEarlier(f, heap, outputMemberships, order, i + 1,
                            [acc EXCEPT !.results = MapPut(acc.results, varName, out.val)]) :
                   out \in {Defuzzify(f.DefuzzMethod, heap[f.OutputVariables[varName]],
                                      outputMemberships[varName], f.Resolution)}})

\* Step 3 of Infer: "for varName, outputVar := range fis.OutputVariables",
\* visiting the map in the order given; acc = [err, results]
RECURSIVE InferDefuzz(_, _, _, _, _, _)
InferDefuzz(f, heap, outputMemberships, order, i, acc) ==
    IF i > Len(order) THEN acc
    ELSE LET varName == order[i]
         IN  Only({IF out.err # Nil
                   THEN [err |-> [type |-> "defuzzification failed for variable",
                                  varName |-> varName, cause |-> out.err],
                         results |-> <<>>]
                   ELSE InferDefuzz(f, heap, outputMemberships, order, i + 1,
                            [acc EXCEPT !.results = MapPut(acc.results, varName, out.val)]) :
                   out \in {Defuzzify(f.DefuzzMethod, heap[f.OutputVariables[varName]],
                                      outputMemberships[varName], f.Resolution)}})

\* Step 3 of Infer on the aggregation built by Step 2
InferStep3(f, heap, outputMemberships, outOrder) ==
    Only({[results |-> d.results, err |-> d.err, outputMemberships |-> outputMemberships] :
          d \in {InferDefuzz(f, heap, outputMemberships, outOrder, 1,
                             [err |-> Nil, results |-> <<>>])}})

\* Steps 2 and 3 of Infer on the membership degrees built by Step 1
InferStep2(f, heap, rheap, membershipMap, outOrder) ==
    Only({IF agg.err # Nil
          THEN [results |-> <<>>, err |-> agg.err, outputMemberships |-> <<>>]
          ELSE InferStep3(f, heap, agg.outputMemberships, outOrder) :
          agg \in {InferRules(f, rheap, membershipMap, 1,
                       [err |-> Nil,
                        outputMemberships |-> [o \in DOMAIN f.OutputVariables |-> <<>>]])}})

\* a variant of Infer that looks at the rules before the variables
Infer_RulesFirst(f, heap, rheap, inputs, inOrder, outOrder) ==
    IF Len(f.Rules) = 0
    THEN [results |-> <<>>, err |-> ErrNoRules, outputMemberships |-> <<>>]
    ELSE IF DOMAIN f.InputVariables = {}
    THEN [results |-> <<>>, err |-> ErrNoInputVariables, outputMemberships |-> <<>>]
    ELSE IF DOMAIN f.OutputVariables = {}
    THEN [results |-> <<>>, err |-> ErrNoOutputVariables, outputMemberships |-> <<>>]
    ELSE IF InferValidate(f, heap, inputs, inOrder, 1) # Nil
    THEN [results |-> <<>>, err |-> InferValidate(f, heap, inputs, inOrder, 1),
          outputMemberships |-> <<>>]
    ELSE Only({InferStep2(f, heap, rheap, membershipMap, outOrder) :
               membershipMap \in {InferFuzzify(f, heap, inputs)}})

\* Infer(inputs).  results = <<>> is Go's nil map.  The aggregation built in
\* Step 2 is returned too (outputMemberships, <<>> when Step 2 is not reached
\* or not completed) so that properties can speak about it.
Infer(f, heap, rheap, inputs, inOrder, outOrder) ==
    IF DOMAIN f.InputVariables = {}
    THEN [results |-> <<>>, err |-> ErrNoInputVariables, outputMemberships |-> <<>>]
    ELSE IF DOMAIN f.OutputVariables = {}
    THEN [results |-> <<>>, err |-> ErrNoOutputVariables, outputMemberships |-> <<>>]
    ELSE IF Len(f.Rules) = 0
    THEN [results |-> <<>>, err |-> ErrNoRules, outputMemberships |-> <<>>]
    ELSE IF InferValidate(f, heap, inputs, inOrder, 1) # Nil
    THEN [results |-> <<>>, err |-> InferValidate(f, heap, inputs, inOrder, 1),
          outputMemberships |-> <<>>]
    ELSE Only({InferStep2(f, heap, rheap, membershipMap, outOrder) :
               membershipMap \in {InferFuzzify(f, heap, inputs)}})

----------------------------------------------------------------------------
(* The objects the caller builds, and the bounds of the model              *)

MaxResolution == 2      \* resolutions 1..MaxResolution
MaxRules == 2           \* at most MaxRules rules are registered

\* 1 - delta: a weight just below 1 (0.9999999999)
AlmostOne == Norm(1, -1, 1)

RECURSIVE Perms(_)
Perms(S) == IF S = {} THEN {<<>>}
            ELSE UNION {{<<e>> \o p : p \in Perms(S \ {e})} : e \in S}

\* variable objects as NewFuzzyVariable and AddSet leave them
WithSets(fv, sets) == [fv EXCEPT !.Sets = sets]

SetLoT == FuzzySet("Lo", Trapezoidal(I(-1), I(0), I(1), I(3)))
SetHiT == FuzzySet("Hi", Trapezoidal(I(1), I(3), I(4), I(5)))
SetLoU == FuzzySet("Lo", Triangular(I(-1), I(0), I(2)))
SetLoF == FuzzySet("Lo", Trapezoidal(I(-1), I(0), I(1), I(3)))
SetHiF == FuzzySet("Hi", Triangular(I(0), I(4), I(6)))
SetLoG == FuzzySet("Lo", Triangular(I(0), I(1), I(2)))

VarPool ==
    [vT |-> WithSets(NewFuzzyVariable("T", I(0), I(4)), [n \in {"Lo"} |-> SetLoT]),
     vU |-> WithSets(NewFuzzyVariable("U", I(0), I(2)), [n \in {"Lo"} |-> SetLoU]),
     vF |-> WithSets(NewFuzzyVariable("F", I(0), I(4)), [n \in {"Lo"} |-> SetLoF]),
     vG |-> WithSets(NewFuzzyVariable("G", I(0), I(2)), [n \in {"Lo"} |-> SetLoG])]

\* the sets the caller may add later: <<variable, name, membership function>>
AddSetPool ==
    {<<"vT", "Hi", SetHiT.MembershipFunc>>, <<"vF", "Hi", SetHiF.MembershipFunc>>,
     <<"vT", "Lo", SetHiT.MembershipFunc>>, <<"vU", "", SetLoU.MembershipFunc>>}

Rule(conds, out, weight, op) ==
    [Conditions |-> conds, Output |-> out, Weight |-> weight, Operator |-> op]

\* rule objects as NewRule, AddConditionEx and SetWeight leave them
RulePool ==
    [r0 |-> Rule(<<>>, RuleCondition("F", "Lo", FALSE), One, "AND"),
     r1 |-> Rule(<<RuleCondition("T", "Lo", FALSE)>>, RuleCondition("F", "Lo", FALSE), One, "AND"),
     r2 |-> Rule(<<RuleCondition("T", "Hi", FALSE), RuleCondition("U", "Lo", FALSE)>>,
                 RuleCondition("F", "Hi", FALSE), R(1, 2), "AND"),
     r3 |-> Rule(<<RuleCondition("T", "Lo", FALSE), RuleCondition("U", "Lo", TRUE)>>,
                 RuleCondition("G", "Lo", FALSE), One, "OR"),
     r4 |-> Rule(<<RuleCondition("U", "Lo", FALSE)>>, RuleCondition("F", "Lo", FALSE), AlmostOne, "AND"),
     r5 |-> Rule(<<RuleCondition("T", "Lo", FALSE)>>, RuleCondition("Z", "Lo", FALSE), One, "AND"),
     r6 |-> Rule(<<RuleCondition("T", "Lo", FALSE), RuleCondition("X", "Lo", FALSE)>>,
                 RuleCondition("F", "Lo", FALSE), One, "AND")]

InputPtrs == {"vT", "vU"}
OutputPtrs == {"vF", "vG"}
Methods == {DefuzzCOG, DefuzzMOM, DefuzzFOM, DefuzzLOM, DefuzzSOM}

\* the crisp inputs handed to Infer: a map over a subset of {T, U}, or over
\* {T, U, X}, X naming no variable
InputMaps ==
    {[n \in ks |-> IF n = "T" THEN t ELSE u] :
        ks \in {{}, {"T"}, {"U"}, {"T", "U"}},
        t \in {I(-1), I(0), I(2), I(4)}, u \in {I(1), I(3)}}
    \cup {[n \in {"T", "U", "X"} |-> IF n = "T" THEN I(2) ELSE IF n = "U" THEN u ELSE Zero] :
            u \in {I(1), I(3)}}

\* the variable objects once every set of AddSetPool that AddSet accepts is added
FullVarPool ==
    [VarPool EXCEPT !["vT"].Sets = MapPut(@, "Hi", SetHiT), !["vF"].Sets = MapPut(@, "Hi", SetHiF)]

\* AddRule called for each rule of rs in turn
RECURSIVE AddRules(_, _, _, _)
AddRules(f, heap, rheap, rs) ==
    IF rs = <<>> THEN f
    ELSE AddRules(AddRuleFis(f, heap, rheap, Head(rs)), heap, rheap, Tail(rs))

RECURSIVE SeqsUpTo(_, _)
SeqsUpTo(S, n) ==
    IF n = 0 THEN {<<>>}
    ELSE LET shorter == SeqsUpTo(S, n - 1)
         IN  shorter \cup {Append(q, e) : q \in shorter, e \in S}

\* engines configured by AddInputVariable, AddOutputVariable, SetResolution,
\* SetDefuzzificationMethod and then AddRule for each rule of a sequence of
\* distinct rules; one method for each arm of the switch of Infer
ConfiguredEngines ==
    {AddRules([InputVariables |-> [n \in {"T", "U"} |-> IF n = "T" THEN "vT" ELSE "vU"],
               OutputVariables |-> outs, Rules |-> <<>>, Resolution |-> res, DefuzzMethod |-> m],
              FullVarPool, RulePool, rs) :
        outs \in {[n \in {"F"} |-> "vF"], [n \in {"F", "G"} |-> IF n = "F" THEN "vF" ELSE "vG"]},
        res \in 1..MaxResolution, m \in {DefuzzCOG, DefuzzMOM, DefuzzLOM},
        rs \in {q \in SeqsUpTo({"r1", "r2", "r3", "r4"}, MaxRules) :
                  \A i, j \in 1..Len(q) : q[i] = q[j] => i = j}}

----------------------------------------------------------------------------
(* The engine as a state machine                                           *)

Init ==
    /\ DefaultResolution = MaxResolution
    /\ varHeap = VarPool
    /\ ruleHeap = RulePool
    /\ fis = NewMamdaniInferenceSystem
    /\ arg = <<>>
    /\ ret = [op |-> "none"]

\* a variant of AddSet that drops the sets the variable had
AddSet_DropSets(v, name, mf) ==
    LET fv == varHeap[v]
        err == IF name = "" THEN [type |-> "fuzzy set name cannot be empty"]
               ELSE IF name \in DOMAIN fv.Sets
               THEN [type |-> "set already exists in variable", Set |-> name, Variable |-> fv.Name]
               ELSE Nil
    IN  /\ varHeap' = IF err # Nil THEN varHeap
                      ELSE [varHeap EXCEPT ![v].Sets = [n \in {name} |-> FuzzySet(name, mf)]]
        /\ ret' = [op |-> "AddSet", v |-> v, name |-> name, err |-> err]
        /\ UNCHANGED <<DefaultResolution, ruleHeap, fis, arg>>

\* a variant of AddSet that binds a name already present to the new set
AddSet_Rebind(v, name, mf) ==
    /\ varHeap' = IF name = "" THEN varHeap
                  ELSE [varHeap EXCEPT ![v].Sets = MapPut(varHeap[v].Sets, name, FuzzySet(name, mf))]
    /\ ret' = [op |-> "AddSet", v |-> v, name |-> name,
               err |-> IF name = "" THEN [type |-> "fuzzy set name cannot be empty"]
                       ELSE IF name \in DOMAIN varHeap[v].Sets
                       THEN [type |-> "set already exists in variable", Set |-> name,
                             Variable |-> varHeap[v].Name]
                       ELSE Nil]
    /\ UNCHANGED <<DefaultResolution, ruleHeap, fis, arg>>

\* fv.AddSet(set.NewFuzzySet(name, mf))
AddSet(v, name, mf) ==
    LET fv == varHeap[v]
        err == IF name = "" THEN [type |-> "fuzzy set name cannot be empty"]
               ELSE IF name \in DOMAIN fv.Sets
               THEN [type |-> "set already exists in variable", Set |-> name, Variable |-> fv.Name]
               ELSE Nil
    IN  /\ varHeap' = IF err # Nil THEN varHeap
                      ELSE [varHeap EXCEPT ![v].Sets = MapPut(fv.Sets, name, FuzzySet(name, mf))]
        /\ ret' = [op |-> "AddSet", v |-> v, name |-> name, err |-> err]
        /\ UNCHANGED <<DefaultResolution, ruleHeap, fis, arg>>

AddInputVariable(v) ==
    LET name == varHeap[v].Name
        exists == name \in DOMAIN fis.InputVariables
    IN  /\ fis' = IF exists THEN fis
                  ELSE [fis EXCEPT !.InputVariables = MapPut(fis.InputVariables, name, v)]
        /\ ret' = [op |-> "AddInputVariable", v |-> v,
                   err |-> IF exists THEN [type |-> "input variable already exists", Variable |-> name]
                           ELSE Nil]
        /\ UNCHANGED <<DefaultResolution, varHeap, ruleHeap, arg>>

AddOutputVariable(v) ==
    LET name == varHeap[v].Name
        exists == name \in DOMAIN fis.OutputVariables
    IN  /\ fis' = IF exists THEN fis
                  ELSE [fis EXCEPT !.OutputVariables = MapPut(fis.OutputVariables, name, v)]
        /\ ret' = [op |-> "AddOutputVariable", v |-> v,
                   err |-> IF exists THEN [type |-> "output variable already exists", Variable |-> name]
                           ELSE Nil]
        /\ UNCHANGED <<DefaultResolution, varHeap, ruleHeap, arg>>

\* a variant of AddRule that starts the rule list again from the new rule
AddRule_Restart(r) ==
    /\ Len(fis.Rules) < MaxRules
    /\ fis' = IF AddRuleErr(fis, varHeap, ruleHeap[r]) # Nil THEN fis
              ELSE [fis EXCEPT !.Rules = <<r>>]
    /\ ret' = [op |-> "AddRule", r |-> r, err |-> AddRuleErr(fis, varHeap, ruleHeap[r])]
    /\ UNCHANGED <<DefaultResolution, varHeap, ruleHeap, arg>>

AddRule(r) ==
    /\ Len(fis.Rules) < MaxRules
    /\ fis' = AddRuleFis(fis, varHeap, ruleHeap, r)
    /\ ret' = [op |-> "AddRule", r |-> r, err |-> AddRuleErr(fis, varHeap, ruleHeap[r])]
    /\ UNCHANGED <<DefaultResolution, varHeap, ruleHeap, arg>>

\* a variant of SetResolution that stores the value it rejects
SetResolution_StoreRejected(res) ==
    /\ fis' = [fis EXCEPT !.Resolution = res]
    /\ ret' = [op |-> "SetResolution", res |-> res,
               err |-> IF res <= 0 THEN [type |-> "resolution must be > 0", res |-> res] ELSE Nil]
    /\ UNCHANGED <<DefaultResolution, varHeap, ruleHeap, arg>>

SetResolution(res) ==
    /\ fis' = IF res <= 0 THEN fis ELSE [fis EXCEPT !.Resolution = res]
    /\ ret' = [op |-> "SetResolution", res |-> res,
               err |-> IF res <= 0 THEN [type |-> "resolution must be > 0", res |-> res] ELSE Nil]
    /\ UNCHANGED <<DefaultResolution, varHeap, ruleHeap, arg>>

SetDefuzzificationMethod(method) ==
    /\ fis' = IF method \in {DefuzzCOG, DefuzzMOM, DefuzzFOM, DefuzzLOM, DefuzzSOM}
              THEN [fis EXCEPT !.DefuzzMethod = method] ELSE fis
    /\ ret' = [op |-> "SetDefuzzificationMethod", method |-> method,
               err |-> IF method \in {DefuzzCOG, DefuzzMOM, DefuzzFOM, DefuzzLOM, DefuzzSOM}
                       THEN Nil ELSE [type |-> "invalid defuzzification method", method |-> method]]
    /\ UNCHANGED <<DefaultResolution, varHeap, ruleHeap, arg>>

\* fis.Infer(inputs); the two map ranges visit their keys in any order
InferCall(inputs) ==
    \E inOrder \in Perms(DOMAIN fis.InputVariables), outOrder \in Perms(DOMAIN fis.OutputVariables) :
        /\ ret' = [op |-> "Infer", inputs |-> inputs,
                   out |-> Infer(fis, varHeap, ruleHeap, inputs, inOrder, outOrder)]
        /\ UNCHANGED <<DefaultResolution, varHeap, ruleHeap, fis, arg>>

Next ==
    \/ \E a \in AddSetPool : AddSet(a[1], a[2], a[3])
    \/ \E v \in InputPtrs : AddInputVariable(v)
    \/ \E v \in OutputPtrs : AddOutputVariable(v)
    \/ \E r \in DOMAIN ruleHeap : AddRule(r)
    \/ \E res \in -1..MaxResolution : SetResolution(res)
    \/ \E method \in Methods \cup {"bogus"} : SetDefuzzificationMethod(method)

Spec == Init /\ [][Next]_vars

\* Infer as a function of the engine and the inputs: one call on a configured
\* engine, the inputs in arg
InitInfer ==
    /\ DefaultResolution = MaxResolution
    /\ varHeap = FullVarPool
    /\ ruleHeap = RulePool
    /\ fis \in ConfiguredEngines
    /\ arg \in InputMaps
    /\ ret = [op |-> "none"]

NextInfer == ret.op = "none" /\ InferCall(arg)

SpecInfer == InitInfer /\ [][NextInfer]_vars

\* engines at every stage of configuration: none, one or both input
\* variables, the output variable F or none, and AddRule called for r1 or not
\* at all (AddRule rejects r1 until T and F are registered)
PartialEngines ==
    {AddRules([InputVariables |-> [n \in ins |-> IF n = "T" THEN "vT" ELSE "vU"],
               OutputVariables |-> [n \in outs |-> "vF"], Rules |-> <<>>,
               Resolution |-> MaxResolution, DefuzzMethod |-> m],
              FullVarPool, RulePool, rs) :
        ins \in {{}, {"T"}, {"T", "U"}}, outs \in {{}, {"F"}},
        m \in {DefuzzCOG, DefuzzMOM, DefuzzLOM}, rs \in {<<>>, <<"r1">>}}

\* one call of Infer on an engine that may lack variables or rules
InitPartial ==
    /\ DefaultResolution = MaxResolution
    /\ varHeap = FullVarPool
    /\ ruleHeap = RulePool
    /\ fis \in PartialEngines
    /\ arg \in InputMaps
    /\ ret = [op |-> "none"]

SpecPartial == InitPartial /\ [][NextInfer]_vars

----------------------------------------------------------------------------
(* The operators as functions: Apply on every short sequence of degrees    *)

MaxArgs == 3            \* Apply receives at most MaxArgs values

OpValues == {R(-1, 2), Zero, R(1, 2), One, R(3, 2)}

InitOps ==
    /\ DefaultResolution = MaxResolution
    /\ varHeap = VarPool
    /\ ruleHeap = RulePool
    /\ fis = NewMamdaniInferenceSystem
    /\ arg \in SeqsUpTo(OpValues, MaxArgs)
    /\ ret = [op |-> "none"]

ApplyAND ==
    /\ ret.op = "none"
    /\ ret' = [op |-> "AND", out |-> MinOperatorApply(arg)]
    /\ UNCHANGED <<DefaultResolution, varHeap, ruleHeap, fis, arg>>

ApplyOR ==
    /\ ret.op = "none"
    /\ ret' = [op |-> "OR", out |-> MaxOperatorApply(arg)]
    /\ UNCHANGED <<DefaultResolution, varHeap, ruleHeap, fis, arg>>

ApplyNOT ==
    /\ ret.op = "none"
    /\ ret' = [op |-> "NOT", out |-> NotOperatorApply(arg)]
    /\ UNCHANGED <<DefaultResolution, varHeap, ruleHeap, fis, arg>>

NextOps == ApplyAND \/ ApplyOR \/ ApplyNOT

SpecOps == InitOps /\ [][NextOps]_vars

----------------------------------------------------------------------------
(* Rule.Evaluate as a function of the rule and the membership map          *)

MaxConds == 2           \* a rule has at most MaxConds conditions

CondPool ==
    {RuleCondition(v[1], v[2], n) : v \in {<<"T", "Lo">>, <<"T", "Hi">>, <<"X", "Lo">>},
                                    n \in BOOLEAN}

\* membership maps: no entry for X, T.Hi present or not, degrees also outside [0,1]
MembershipMaps ==
    {<<>>}
    \cup {[v \in {"T"} |-> [n \in {"Lo"} |-> lo]] : lo \in {Zero, R(1, 4), One, R(3, 2)}}
    \cup {[v \in {"T"} |-> [n \in {"Lo", "Hi"} |-> IF n = "Lo" THEN lo ELSE hi]] :
             lo \in {Zero, R(1, 4), One, R(3, 2)}, hi \in {R(3, 4), One}}

InitRule ==
    /\ DefaultResolution = MaxResolution
    /\ varHeap = VarPool
    /\ ruleHeap = RulePool
    /\ fis = NewMamdaniInferenceSystem
    /\ arg \in [rule : {Rule(c, RuleCondition("F", "Lo", FALSE), w, o) :
                           c \in SeqsUpTo(CondPool, MaxConds), w \in {Zero, R(1, 2), One},
                           o \in {"AND", "OR", "NOT"}},
                membershipMap : MembershipMaps]
    /\ ret = [op |-> "none"]

Evaluate ==
    /\ ret.op = "none"
    /\ ret' = [op |-> "Evaluate", out |-> RuleEvaluate(arg.rule, arg.membershipMap)]
    /\ UNCHANGED <<DefaultResolution, varHeap, ruleHeap, fis, arg>>

SpecRule == InitRule /\ [][Evaluate]_vars

----------------------------------------------------------------------------
(* The defuzzifiers as functions of the output variable, the aggregation   *)
(* map and the resolution                                                  *)

MaxSamples == 4         \* the defuzzifiers are called with resolutions up to MaxSamples

OutSets ==
    [A |-> FuzzySet("A", Triangular(I(0), I(1), I(2))),
     B |-> FuzzySet("B", Triangular(I(2), I(3), I(4))),
     C |-> FuzzySet("C", Trapezoidal(I(-1), I(0), I(2), I(5)))]

OutVar == WithSets(NewFuzzyVariable("F", I(0), I(4)), OutSets)

Strengths == {Zero, R(1, 2), AlmostOne, One}

AggregationMaps == UNION {[ks -> Strengths] : ks \in SUBSET DOMAIN OutSets}

InitDefuzz ==
    /\ DefaultResolution = MaxResolution
    /\ varHeap = VarPool
    /\ ruleHeap = RulePool
    /\ fis = NewMamdaniInferenceSystem
    /\ arg \in [outputVar : {OutVar}, memberships : AggregationMaps, resolution : 0..MaxSamples]
    /\ ret = [op |-> "none"]

DefuzzifyCOG ==
    /\ ret.op = "none"
    /\ ret' = [op |-> "COG",
               out |-> defuzzifyCOGWithResolution(arg.outputVar, arg.memberships, arg.resolution)]
    /\ UNCHANGED <<DefaultResolution, varHeap, ruleHeap, fis, arg>>

DefuzzifyMOM ==
    /\ ret.op = "none"
    /\ ret' = [op |-> "MOM",
               out |-> defuzzifyMOMWithResolution(arg.outputVar, arg.memberships, arg.resolution)]
    /\ UNCHANGED <<DefaultResolution, varHeap, ruleHeap, fis, arg>>

DefuzzifyFOM ==
    /\ ret.op = "none"
    /\ ret' = [op |-> "FOM",
               out |-> defuzzifyFOMWithResolution(arg.outputVar, arg.memberships, arg.resolution)]
    /\ UNCHANGED <<DefaultResolution, varHeap, ruleHeap, fis, arg>>

NextDefuzz == DefuzzifyCOG \/ DefuzzifyMOM \/ DefuzzifyFOM

SpecDefuzz == InitDefuzz /\ [][NextDefuzz]_vars
----------------------------------------------------------------------------
(* The caller keeps the rule objects it registered: AddRule stores the     *)
(* pointer it is given, and the methods of Rule act on the object          *)

MaxAdded == 1           \* conditions appended to a rule object after construction

\* engines holding one to MaxRules of the rules r1 and r4
AliasEngines ==
    {e \in ConfiguredEngines :
        /\ e.Resolution = 1 /\ e.DefuzzMethod = DefuzzCOG
        /\ DOMAIN e.OutputVariables = {"F"}
        /\ Len(e.Rules) >= 1 /\ \A i \in 1..Len(e.Rules) : e.Rules[i] \in {"r1", "r4"}}

AliasInputs == {m \in InputMaps : DOMAIN m = {"T", "U"} /\ m["U"] = I(1)}

InitAlias ==
    /\ DefaultResolution = MaxResolution
    /\ varHeap = FullVarPool
    /\ ruleHeap = RulePool
    /\ fis \in AliasEngines
    /\ arg \in AliasInputs
    /\ ret = [op |-> "none"]

\* r.AddConditionEx(variable, set, negated)
AddConditionEx(r, variable, set, negated) ==
    LET err == IF variable = "" THEN [type |-> "condition variable name cannot be empty"]
               ELSE IF set = "" THEN [type |-> "condition set name cannot be empty"]
               ELSE Nil
    IN  /\ Len(ruleHeap[r].Conditions) < Len(RulePool[r].Conditions) + MaxAdded
        /\ ruleHeap' = IF err # Nil THEN ruleHeap
                       ELSE [ruleHeap EXCEPT ![r].Conditions =
                                 Append(@, RuleCondition(variable, set, negated))]
        /\ ret' = [op |-> "AddConditionEx", r |-> r, err |-> err]
        /\ UNCHANGED <<DefaultResolution, varHeap, fis, arg>>

\* r.AddCondition(variable, set)
AddCondition(r, variable, set) == AddConditionEx(r, variable, set, FALSE)

\* r.SetWeight(weight)
SetWeight(r, weight) ==
    LET bad == NLt(weight, Zero) \/ NGt(weight, One)
    IN  /\ ruleHeap' = IF bad THEN ruleHeap ELSE [ruleHeap EXCEPT ![r].Weight = weight]
        /\ ret' = [op |-> "SetWeight", r |-> r,
                   err |-> IF bad THEN [type |-> "weight must be in range [0, 1], got %.2f",
                                        weight |-> Fmt2(weight)]
                           ELSE Nil]
        /\ UNCHANGED <<DefaultResolution, varHeap, fis, arg>>

NextAlias ==
    \/ \E r \in {"r1", "r4"}, c \in {<<"U", "Lo", TRUE>>, <<"X", "Lo", FALSE>>, <<"", "Lo", FALSE>>,
                                     <<"U", "", FALSE>>} :
          AddConditionEx(r, c[1], c[2], c[3])
    \/ \E r \in {"r1", "r4"} : AddCondition(r, "T", "Hi")
    \/ \E r \in {"r1", "r4"}, w \in {R(1, 2), I(2), I(-1)} : SetWeight(r, w)
    \/ InferCall(arg)

SpecAlias == InitAlias /\ [][NextAlias]_vars

----------------------------------------------------------------------------
(* Infer at the resolution of the source: the sample loop of the mean of   *)
(* maximum advances Chunk samples at a time                                *)

SourceResolution == 1000    \* var DefaultResolution = 1000
Chunk == 4                  \* samples visited in one step

\* the temperature controller: Temperature in [0,50], FanSpeed in [0,100]
TempVars ==
    [tT |-> WithSets(NewFuzzyVariable("Temperature", I(0), I(50)),
                     [n \in {"Cold", "Warm", "Hot"} |->
                        FuzzySet(n, CASE n = "Cold" -> Triangular(I(0), I(0), I(15))
                                      [] n = "Warm" -> Triangular(I(10), I(25), I(40))
                                      [] n = "Hot" -> Triangular(I(30), I(50), I(50)))]),
     tF |-> WithSets(NewFuzzyVariable("FanSpeed", I(0), I(100)),
                     [n \in {"Off", "Low", "Medium", "High"} |->
                        FuzzySet(n, CASE n = "Off" -> Triangular(I(0), I(0), I(20))
                                      [] n = "Low" -> Triangular(I(10), I(30), I(50))
                                      [] n = "Medium" -> Triangular(I(40), I(60), I(80))
                                      [] n = "High" -> Triangular(I(70), I(100), I(100)))])]

TempRules ==
    [cold |-> Rule(<<RuleCondition("Temperature", "Cold", FALSE)>>,
                   RuleCondition("FanSpeed", "Off", FALSE), One, "AND"),
     warm |-> Rule(<<RuleCondition("Temperature", "Warm", FALSE)>>,
                   RuleCondition("FanSpeed", "Low", FALSE), One, "AND"),
     hot |-> Rule(<<RuleCondition("Temperature", "Hot", FALSE)>>,
                  RuleCondition("FanSpeed", "High", FALSE), One, "AND")]

\* NewMamdaniInferenceSystem, AddInputVariable, AddOutputVariable and the
\* three AddRule calls
TempEngine ==
    AddRules([NewMamdaniInferenceSystem EXCEPT
                  !.InputVariables = [n \in {"Temperature"} |-> "tT"],
                  !.OutputVariables = [n \in {"FanSpeed"} |-> "tF"]],
             TempVars, TempRules, <<"cold", "warm", "hot">>)

InitTemp ==
    /\ DefaultResolution = SourceResolution
    /\ varHeap = TempVars
    /\ ruleHeap = TempRules
    /\ fis = TempEngine
    /\ arg \in {[n \in {"Temperature"} |-> I(t)] : t \in {0, 5, 25, 45, 50}}
    /\ ret = [op |-> "none"]

\* Infer(arg) with the method "mom", up to the start of Step 3
InferMOMBegin ==
    /\ ret.op = "none" /\ fis.DefuzzMethod = DefuzzMOM
    /\ \E inOrder \in Perms(DOMAIN fis.InputVariables),
          outOrder \in Perms(DOMAIN fis.OutputVariables) :
        \E pre \in {IF DOMAIN fis.InputVariables = {} THEN ErrNoInputVariables
                    ELSE IF DOMAIN fis.OutputVariables = {} THEN ErrNoOutputVariables
                    ELSE IF Len(fis.Rules) = 0 THEN ErrNoRules
                    ELSE InferValidate(fis, varHeap, arg, inOrder, 1)} :
          IF pre # Nil
          THEN ret' = [op |-> "Infer", inputs |-> arg,
                       out |-> [results |-> <<>>, err |-> pre, outputMemberships |-> <<>>]]
          ELSE \E agg \in {InferRules(fis, ruleHeap, InferFuzzify(fis, varHeap, arg), 1,
                               [err |-> Nil,
                                outputMemberships |-> [o \in DOMAIN fis.OutputVariables |-> <<>>]])} :
                 IF agg.err # Nil
                 THEN ret' = [op |-> "Infer", inputs |-> arg,
                              out |-> [results |-> <<>>, err |-> agg.err,
                                       outputMemberships |-> <<>>]]
                 ELSE ret' = [op |-> "InferMOM", inputs |-> arg,
                              outputMemberships |-> agg.outputMemberships,
                              order |-> outOrder, results |-> <<>>,
                              i |-> 0, acc |-> <<Zero, <<>> >>]
    /\ UNCHANGED <<DefaultResolution, varHeap, ruleHeap, fis, arg>>

\* the resolution defuzzifyMOMWithResolution works with
MOMResolution == IF fis.Resolution <= 0 THEN DefaultResolution ELSE fis.Resolution

\* the next Chunk iterations of the sample loop, for the output variable at
\* the head of ret.order
InferMOMSamples ==
    /\ ret.op = "InferMOM" /\ ret.i <= MOMResolution
    /\ DOMAIN ret.outputMemberships[Head(ret.order)] # {}
    /\ LET outputVar == varHeap[fis.OutputVariables[Head(ret.order)]]
           last == IF ret.i + Chunk - 1 < MOMResolution THEN ret.i + Chunk - 1
                   ELSE MOMResolution
       IN  ret' = [ret EXCEPT
                     !.i = last + 1,
                     !.acc = MOMLoop(outputVar, ret.outputMemberships[Head(ret.order)], last,
                                     Step(outputVar, MOMResolution), ret.i, ret.acc)]
    /\ UNCHANGED <<DefaultResolution, varHeap, ruleHeap, fis, arg>>

\* after the sample loop: the mean of the points kept, then the next output
\* variable or the return of Infer
InferMOMEnd ==
    /\ ret.op = "InferMOM"
    /\ ret.i > MOMResolution \/ DOMAIN ret.outputMemberships[Head(ret.order)] = {}
    /\ LET varName == Head(ret.order)
           failed == \/ DOMAIN ret.outputMemberships[varName] = {}
                     \/ Len(ret.acc[2]) = 0 \/ ret.acc[1] = Zero
       IN  IF failed
           THEN ret' = [op |-> "Infer", inputs |-> ret.inputs,
                        out |-> [results |-> <<>>,
                                 err |-> [type |-> "defuzzification failed for variable",
                                          varName |-> varName, cause |-> ErrNoRulesFired],
                                 outputMemberships |-> ret.outputMemberships]]
           ELSE \E results \in {MapPut(ret.results, varName,
                                       NDiv(SumSeq(ret.acc[2]), I(Len(ret.acc[2]))))} :
                  IF Tail(ret.order) = <<>>
                  THEN ret' = [op |-> "Infer", inputs |-> ret.inputs,
                               out |-> [results |-> results, err |-> Nil,
                                        outputMemberships |-> ret.outputMemberships]]
                  ELSE ret' = [ret EXCEPT !.order = Tail(ret.order), !.results = results,
                                          !.i = 0, !.acc = <<Zero, <<>> >>]
    /\ UNCHANGED <<DefaultResolution, varHeap, ruleHeap, fis, arg>>

NextTemp == InferMOMBegin \/ InferMOMSamples \/ InferMOMEnd

SpecTemp == InitTemp /\ [][NextTemp]_vars

----------------------------------------------------------------------------
(* A rule made by NewRule and AddConditionEx, its weight set by SetWeight, *)
(* evaluated on a membership map                                           *)

Weights == {Zero, R(1, 2), One, R(3, 2), I(-1), NaN}

InitWeight ==
    /\ DefaultResolution = MaxResolution
    /\ varHeap = VarPool
    /\ ruleHeap \in {[r \in {"w"} |-> Rule(c, RuleCondition("F", "Lo", FALSE), One, o)] :
                       c \in SeqsUpTo({RuleCondition("T", "Lo", FALSE), RuleCondition("T", "Lo", TRUE),
                                        RuleCondition("T", "Hi", FALSE)}, MaxConds) \ {<<>>},
                       o \in {"AND", "OR"}}
    /\ fis = NewMamdaniInferenceSystem
    /\ arg \in MembershipMaps
    /\ ret = [op |-> "none"]

\* ruleHeap["w"].Evaluate(arg)
EvaluateRule ==
    /\ ret' = [op |-> "Evaluate", out |-> RuleEvaluate(ruleHeap["w"], arg)]
    /\ UNCHANGED <<DefaultResolution, varHeap, ruleHeap, fis, arg>>

NextWeight ==
    \/ \E weight \in Weights : SetWeight("w", weight)
    \/ EvaluateRule

SpecWeight == InitWeight /\ [][NextWeight]_vars

----------------------------------------------------------------------------
(* Infer under each defuzzification method, the method chosen with         *)
(* SetDefuzzificationMethod, at a resolution where the maximum of Lo is    *)
(* reached at more than one sample                                         *)

MethodEngines ==
    {[e EXCEPT !.Resolution = MaxSamples] :
        e \in {c \in ConfiguredEngines :
                 /\ c.Resolution = 1 /\ c.DefuzzMethod = DefuzzMOM
                 /\ DOMAIN c.OutputVariables = {"F", "G"}
                 /\ \A i \in 1..Len(c.Rules) : c.Rules[i] \in {"r1", "r2", "r3"}}}

InitMethods ==
    /\ DefaultResolution = MaxResolution
    /\ varHeap = FullVarPool
    /\ ruleHeap = RulePool
    /\ fis \in MethodEngines
    /\ arg \in {m \in InputMaps : DOMAIN m = {"T", "U"}}
    /\ ret = [op |-> "none"]

NextMethods ==
    \/ \E method \in Methods \cup {"bogus"} : SetDefuzzificationMethod(method)
    \/ InferCall(arg)

SpecMethods == InitMethods /\ [][NextMethods]_vars

----------------------------------------------------------------------------
(* Mean of maximum and first of maximum at a resolution and at twice that  *)
(* resolution, on triangular sets with their corners at 0, 50 and 100      *)

ShoulderSets ==
    [Mid |-> FuzzySet("Mid", Triangular(I(0), I(50), I(100))),
     High |-> FuzzySet("High", Triangular(I(50), I(100), I(100))),
     Up |-> FuzzySet("Up", Triangular(I(0), I(100), I(100)))]

ShoulderVar == WithSets(NewFuzzyVariable("S", I(0), I(100)), ShoulderSets)

InitRefine ==
    /\ DefaultResolution = MaxResolution
    /\ varHeap = VarPool
    /\ ruleHeap = RulePool
    /\ fis = NewMamdaniInferenceSystem
    /\ arg \in [outputVar : {ShoulderVar},
                memberships : UNION {[ks -> {Zero, R(1, 2), One}] : ks \in SUBSET DOMAIN ShoulderSets},
                resolution : 1..(MaxSamples \div 2)]
    /\ ret = [op |-> "none"]

RefineMOM ==
    /\ ret.op = "none"
    /\ ret' = [op |-> "MOM",
               at |-> defuzzifyMOMWithResolution(arg.outputVar, arg.memberships, arg.resolution),
               twice |-> defuzzifyMOMWithResolution(arg.outputVar, arg.memberships,
                                                    2 * arg.resolution)]
    /\ UNCHANGED <<DefaultResolution, varHeap, ruleHeap, fis, arg>>

RefineFOM ==
    /\ ret.op = "none"
    /\ ret' = [op |-> "FOM",
               at |-> defuzzifyFOMWithResolution(arg.outputVar, arg.memberships, arg.resolution),
               twice |-> defuzzifyFOMWithResolution(arg.outputVar, arg.memberships,
                                                    2 * arg.resolution)]
    /\ UNCHANGED <<DefaultResolution, varHeap, ruleHeap, fis, arg>>

NextRefine == RefineMOM \/ RefineFOM

SpecRefine == InitRefine /\ [][NextRefine]_vars

----------------------------------------------------------------------------
(* Triangular.Evaluate and Trapezoidal.Evaluate as functions of the shape  *)
(* and the point                                                           *)

MaxCorner == 3          \* corners are integers in 0..MaxCorner

\* the shapes NewTriangular and NewTrapezoidal accept
Shapes ==
    {t \in {Triangular(I(a), I(b), I(c)) : a, b, c \in 0..MaxCorner} :
        ~(NGt(t.A, t.B) \/ NGt(t.B, t.C))}
    \cup {t \in {Trapezoidal(I(a), I(b), I(c), I(d)) : a, b, c, d \in 0..MaxCorner} :
             ~(NGt(t.A, t.B) \/ NGt(t.B, t.C) \/ NGt(t.C, t.D))}

InitShape ==
    /\ DefaultResolution = MaxResolution
    /\ varHeap = VarPool
    /\ ruleHeap = RulePool
    /\ fis = NewMamdaniInferenceSystem
    /\ arg \in [mf : Shapes, x : {R(k, 2) : k \in -1..(2 * MaxCorner + 1)}]
    /\ ret = [op |-> "none"]

\* arg.mf.Evaluate(arg.x)
EvaluateShape ==
    /\ ret.op = "none"
    /\ ret' = [op |-> "Evaluate", out |-> MFEvaluate(arg.mf, arg.x)]
    /\ UNCHANGED <<DefaultResolution, varHeap, ruleHeap, fis, arg>>

SpecShape == InitShape /\ [][EvaluateShape]_vars

----------------------------------------------------------------------------
(* The configuration calls of the engine and of a rule, accepted and       *)
(* rejected, with two variable objects of the same name                    *)

\* VarPool with a second object named T and a second object named F
ConfigVars ==
    [p \in DOMAIN VarPool \cup {"vT2", "vF2"} |->
        IF p = "vT2" THEN NewFuzzyVariable("T", I(0), I(2))
        ELSE IF p = "vF2" THEN NewFuzzyVariable("F", I(1), I(4))
        ELSE VarPool[p]]

InitConfig ==
    /\ DefaultResolution = MaxResolution
    /\ varHeap = ConfigVars
    /\ ruleHeap = RulePool
    /\ fis = NewMamdaniInferenceSystem
    /\ arg = <<>>
    /\ ret = [op |-> "none"]

NextConfig ==
    \/ \E res \in -1..MaxResolution : SetResolution(res)
    \/ \E method \in {DefuzzCOG, DefuzzFOM, "bogus", ""} : SetDefuzzificationMethod(method)
    \/ \E v \in {"vT", "vT2", "vU"} : AddInputVariable(v)
    \/ \E v \in {"vF", "vF2"} : AddOutputVariable(v)
    \/ \E weight \in Weights : SetWeight("r1", weight)
    \/ \E c \in {<<"U", "Lo", TRUE>>, <<"T", "Hi", FALSE>>, <<"", "Lo", FALSE>>, <<"U", "", TRUE>>} :
          AddConditionEx("r1", c[1], c[2], c[3])

SpecConfig == InitConfig /\ [][NextConfig]_vars

----------------------------------------------------------------------------
(* Infer with the method "mom" on an output variable with the domain      *)
(* [0, 29], at resolutions up to MaxOutRes, the sample loop advancing      *)
(* Chunk samples at a time                                                 *)

MaxOutRes == 7          \* resolutions 1..MaxOutRes

DomainVars ==
    [vT |-> FullVarPool["vT"],
     vW |-> WithSets(NewFuzzyVariable("W", I(0), I(29)),
                     [n \in {"Up", "Dn"} |->
                        FuzzySet(n, IF n = "Up" THEN Triangular(I(0), I(58), I(87))
                                    ELSE Triangular(I(-29), I(0), I(29)))])]

DomainRules ==
    [wUp |-> Rule(<<RuleCondition("T", "Lo", FALSE)>>, RuleCondition("W", "Up", FALSE), One, "AND"),
     wDn |-> Rule(<<RuleCondition("T", "Hi", FALSE)>>, RuleCondition("W", "Dn", FALSE), One, "AND")]

InitDomain ==
    /\ DefaultResolution = MaxResolution
    /\ varHeap = DomainVars
    /\ ruleHeap = DomainRules
    /\ fis \in {AddRules([InputVariables |-> [n \in {"T"} |-> "vT"],
                          OutputVariables |-> [n \in {"W"} |-> "vW"],
                          Rules |-> <<>>, Resolution |-> res, DefuzzMethod |-> m],
                         DomainVars, DomainRules, rs) :
                  res \in 1..MaxOutRes, m \in {DefuzzMOM},
                  rs \in {<<"wUp">>, <<"wDn">>, <<"wUp", "wDn">>}}
    /\ arg \in {[n \in {"T"} |-> I(t)] : t \in {0, 2, 4}}
    /\ ret = [op |-> "none"]

SpecDomain == InitDomain /\ [][NextTemp]_vars

----------------------------------------------------------------------------
(* Concurrent Infer calls on one engine: each caller runs the steps of      *)
(* Infer on its own inputs; ret[c] holds the call-local maps of caller c    *)

MaxCallers == 2         \* goroutines calling Infer on the same engine

InitConc ==
    /\ DefaultResolution = MaxResolution
    /\ varHeap = FullVarPool
    /\ ruleHeap = RulePool
    /\ fis \in {f \in ConfiguredEngines : /\ f.DefuzzMethod = DefuzzCOG
                                        /\ f.Resolution = MaxResolution
                                        /\ Len(f.Rules) = 1}
    /\ arg \in [1..MaxCallers ->
                  {[n \in ks |-> IF n = "T" THEN t ELSE I(1)] :
                      ks \in {{"T"}, {"T", "U"}}, t \in {I(0), I(2)}}
                  \ {[n \in {"T"} |-> I(0)]}]
    /\ ret = [c \in 1..MaxCallers |-> [pc |-> "begin"]]

\* the configuration checks and the validation loop of Infer
ConcBegin(c) ==
    /\ ret[c].pc = "begin"
    /\ \E inOrder \in Perms(DOMAIN fis.InputVariables) :
          ret' = [ret EXCEPT ![c] =
                    IF DOMAIN fis.InputVariables = {}
                    THEN [pc |-> "done", out |-> [results |-> <<>>, err |-> ErrNoInputVariables,
                                                   outputMemberships |-> <<>>]]
                    ELSE IF DOMAIN fis.OutputVariables = {}
                    THEN [pc |-> "done", out |-> [results |-> <<>>, err |-> ErrNoOutputVariables,
                                                   outputMemberships |-> <<>>]]
                    ELSE IF Len(fis.Rules) = 0
                    THEN [pc |-> "done", out |-> [results |-> <<>>, err |-> ErrNoRules,
                                                   outputMemberships |-> <<>>]]
                    ELSE IF InferValidate(fis, varHeap, arg[c], inOrder, 1) # Nil
                    THEN [pc |-> "done",
                          out |-> [results |-> <<>>,
                                   err |-> InferValidate(fis, varHeap, arg[c], inOrder, 1),
                                   outputMemberships |-> <<>>]]
                    ELSE [pc |-> "step1"]]
    /\ UNCHANGED <<DefaultResolution, varHeap, ruleHeap, fis, arg>>

\* Step 1: the call-local membershipMap
ConcFuzzify(c) ==
    /\ ret[c].pc = "step1"
    /\ ret' = [ret EXCEPT ![c] = [pc |-> "step2",
                                  membershipMap |-> InferFuzzify(fis, varHeap, arg[c])]]
    /\ UNCHANGED <<DefaultResolution, varHeap, ruleHeap, fis, arg>>

\* Step 2: the call-local outputMemberships, or the error of a rule
ConcRules(c) ==
    /\ ret[c].pc = "step2"
    /\ ret' = [ret EXCEPT ![c] =
                 Only({IF agg.err # Nil
                       THEN [pc |-> "done", out |-> [results |-> <<>>, err |-> agg.err,
                                                      outputMemberships |-> <<>>]]
                       ELSE [pc |-> "step3", outputMemberships |-> agg.outputMemberships] :
                       agg \in {InferRules(fis, ruleHeap, ret[c].membershipMap, 1,
                                   [err |-> Nil,
                                    outputMemberships |->
                                        [o \in DOMAIN fis.OutputVariables |-> <<>>]])}})]
    /\ UNCHANGED <<DefaultResolution, varHeap, ruleHeap, fis, arg>>

\* a variant of Step 3 that leaves the engine at the coarsest resolution
ConcDefuzz_CoarsenEngine(c) ==
    /\ ret[c].pc = "step3"
    /\ \E outOrder \in Perms(DOMAIN fis.OutputVariables) :
          ret' = [ret EXCEPT ![c] =
                    [pc |-> "done",
                     out |-> InferStep3(fis, varHeap, ret[c].outputMemberships, outOrder)]]
    /\ fis' = [fis EXCEPT !.Resolution = 1]
    /\ UNCHANGED <<DefaultResolution, varHeap, ruleHeap, arg>>

\* Step 3: the call-local results, or the error of a defuzzifier
ConcDefuzz(c) ==
    /\ ret[c].pc = "step3"
    /\ \E outOrder \in Perms(DOMAIN fis.OutputVariables) :
          ret' = [ret EXCEPT ![c] =
                    [pc |-> "done",
                     out |-> InferStep3(fis, varHeap, ret[c].outputMemberships, outOrder)]]
    /\ UNCHANGED <<DefaultResolution, varHeap, ruleHeap, fis, arg>>

NextConc ==
    \E c \in 1..MaxCallers :
        \/ ConcBegin(c)
        \/ ConcFuzzify(c)
        \/ ConcRules(c)
        \/ ConcDefuzz(c)

SpecConc == InitConc /\ [][NextConc]_vars

----------------------------------------------------------------------------
(* The engine over its lifetime: the configuring calls and Infer in any     *)
(* order                                                                    *)

NextLife ==
    \/ \E a \in {p \in AddSetPool : p[1] = "vT"} : AddSet(a[1], a[2], a[3])
    \/ \E v \in InputPtrs : AddInputVariable(v)
    \/ \E v \in OutputPtrs : AddOutputVariable(v)
    \/ \E r \in {"r0", "r1", "r3", "r5"} : AddRule(r)
    \/ \E res \in {0, 1} : SetResolution(res)
    \/ \E method \in {DefuzzFOM, "bogus"} : SetDefuzzificationMethod(method)
    \/ \E inputs \in {[n \in {"T", "U"} |-> IF n = "T" THEN I(2) ELSE I(1)],
                      [n \in {"T"} |-> I(0)]} : InferCall(inputs)

SpecLife == Init /\ [][NextLife]_vars

----------------------------------------------------------------------------
(* fis/model.go: the conversion of a parsed .fis model into an engine       *)

MaxLines == 2           \* rule lines of a model
MaxIndex == 3           \* antecedent indices are drawn from -MaxIndex..MaxIndex

Gaussian(center, width) == [kind |-> "Gaussian", Center |-> center, Width |-> width]

\* the result is the pair (mf, err) of the Go function
convertMembershipFunction(spec) ==
    IF spec.Type = "trimf"
    THEN IF Len(spec.Params) # 3
         THEN [mf |-> Nil, err |-> [type |-> "trimf requires 3 parameters", got |-> Len(spec.Params)]]
         ELSE IF NGt(spec.Params[1], spec.Params[2]) \/ NGt(spec.Params[2], spec.Params[3])
         THEN [mf |-> Nil, err |-> [type |-> "invalid trimf parameters"]]
         ELSE [mf |-> Triangular(spec.Params[1], spec.Params[2], spec.Params[3]), err |-> Nil]
    ELSE IF spec.Type = "trapmf"
    THEN IF Len(spec.Params) # 4
         THEN [mf |-> Nil, err |-> [type |-> "trapmf requires 4 parameters", got |-> Len(spec.Params)]]
         ELSE IF \/ NGt(spec.Params[1], spec.Params[2]) \/ NGt(spec.Params[2], spec.Params[3])
                 \/ NGt(spec.Params[3], spec.Params[4])
         THEN [mf |-> Nil, err |-> [type |-> "invalid trapmf parameters"]]
         ELSE [mf |-> Trapezoidal(spec.Params[1], spec.Params[2], spec.Params[3], spec.Params[4]),
               err |-> Nil]
    ELSE IF spec.Type = "gaussmf"
    THEN IF Len(spec.Params) # 2
         THEN [mf |-> Nil, err |-> [type |-> "gaussmf requires 2 parameters (sigma, center)",
                                    got |-> Len(spec.Params)]]
         ELSE IF NLe(spec.Params[1], Zero)
         THEN [mf |-> Nil, err |-> [type |-> "invalid gaussmf parameters"]]
         ELSE [mf |-> Gaussian(spec.Params[2], spec.Params[1]), err |-> Nil]
    ELSE [mf |-> Nil, err |-> [type |-> "unsupported membership function type", Type |-> spec.Type]]

\* the loop of convertVariable over spec.MFs, from the i-th on; v is the
\* variable built so far
RECURSIVE convertVariableSets(_, _, _)
convertVariableSets(spec, i, v) ==
    IF i > Len(spec.MFs) THEN [v |-> v, err |-> Nil]
    ELSE IF convertMembershipFunction(spec.MFs[i]).err # Nil
    THEN [v |-> Nil, err |-> [type |-> "error in membership function", index |-> i,
                              cause |-> convertMembershipFunction(spec.MFs[i]).err]]
    ELSE IF spec.MFs[i].Name = "" \/ spec.MFs[i].Name \in DOMAIN v.Sets
    THEN [v |-> Nil, err |-> [type |-> "error adding membership function", index |-> i]]
    ELSE convertVariableSets(spec, i + 1,
             [v EXCEPT !.Sets = MapPut(v.Sets, spec.MFs[i].Name,
                                   FuzzySet(spec.MFs[i].Name,
                                            convertMembershipFunction(spec.MFs[i]).mf))])

convertVariable(spec) ==
    IF spec.Name = "" \/ NGe(spec.Range[1], spec.Range[2])
    THEN [v |-> Nil, err |-> [type |-> "invalid variable specification"]]
    ELSE convertVariableSets(spec, 1, NewFuzzyVariable(spec.Name, spec.Range[1], spec.Range[2]))

\* the position (from 1) of the first non-zero consequent, 0 when there is none
RECURSIVE FirstNonZero(_, _)
FirstNonZero(consequents, i) ==
    IF i > Len(consequents) THEN 0
    ELSE IF consequents[i] # 0 THEN i
    ELSE FirstNonZero(consequents, i + 1)

\* a variant of the loop of convertRule that takes a negative index for the
\* set itself
RECURSIVE convertRuleConditions_NeverNegated(_, _, _, _)
convertRuleConditions_NeverNegated(spec, inputs, i, conds) ==
    IF i > Len(spec.Antecedents) THEN [conds |-> conds, err |-> Nil]
    ELSE IF spec.Antecedents[i] = 0
    THEN convertRuleConditions_NeverNegated(spec, inputs, i + 1, conds)
    ELSE IF i - 1 >= Len(inputs)
    THEN [conds |-> conds, err |-> [type |-> "antecedent index exceeds number of inputs",
                                    index |-> i - 1, inputs |-> Len(inputs)]]
    ELSE IF Abs(spec.Antecedents[i]) - 1 >= Len(inputs[i].MFs)
    THEN [conds |-> conds, err |-> [type |-> "invalid MF index for input",
                                    index |-> Abs(spec.Antecedents[i]), input |-> inputs[i].Name]]
    ELSE convertRuleConditions_NeverNegated(spec, inputs, i + 1,
             Append(conds, RuleCondition(inputs[i].Name,
                                         inputs[i].MFs[Abs(spec.Antecedents[i])].Name, FALSE)))

\* the loop of convertRule over spec.Antecedents, from the i-th on (the Go
\* index is i - 1); conds are the conditions appended so far
RECURSIVE convertRuleConditions(_, _, _, _)
convertRuleConditions(spec, inputs, i, conds) ==
    IF i > Len(spec.Antecedents) THEN [conds |-> conds, err |-> Nil]
    ELSE IF spec.Antecedents[i] = 0 THEN convertRuleConditions(spec, inputs, i + 1, conds)
    ELSE IF i - 1 >= Len(inputs)
    THEN [conds |-> conds, err |-> [type |-> "antecedent index exceeds number of inputs",
                                    index |-> i - 1, inputs |-> Len(inputs)]]
    ELSE IF Abs(spec.Antecedents[i]) - 1 >= Len(inputs[i].MFs)
    THEN [conds |-> conds, err |-> [type |-> "invalid MF index for input",
                                    index |-> Abs(spec.Antecedents[i]), input |-> inputs[i].Name]]
    ELSE convertRuleConditions(spec, inputs, i + 1,
             Append(conds, RuleCondition(inputs[i].Name,
                                         inputs[i].MFs[Abs(spec.Antecedents[i])].Name,
                                         spec.Antecedents[i] < 0)))

\* the result is the pair (r, err) of the Go function, or panic: the run-time
\* error of an index out of range.  outputVarIdx and outputSetIdx are the Go
\* indices (from 0).
convertRule(spec, inputs, outputs) ==
    IF Len(spec.Consequents) = 0
    THEN [r |-> Nil, err |-> [type |-> "rule must have at least one consequent"], panic |-> FALSE]
    ELSE LET k == FirstNonZero(spec.Consequents, 1)
             outputVarIdx == IF k = 0 THEN 0 ELSE k - 1
             outputSetIdx == IF k = 0 THEN 0 ELSE spec.Consequents[k] - 1
             op == IF spec.Connection = 2 THEN "OR" ELSE "AND"
             c == convertRuleConditions(spec, inputs, 1, <<>>)
         IN  IF \/ outputVarIdx >= Len(outputs)
                \/ outputSetIdx >= Len(outputs[outputVarIdx + 1].MFs)
             THEN [r |-> Nil, err |-> [type |-> "invalid output index in rule"], panic |-> FALSE]
             ELSE IF outputSetIdx < 0
             THEN [r |-> Nil, err |-> Nil, panic |-> TRUE]
             ELSE IF \/ outputs[outputVarIdx + 1].Name = ""
                     \/ outputs[outputVarIdx + 1].MFs[outputSetIdx + 1].Name = ""
             THEN [r |-> Nil, err |-> [type |-> "failed to create rule"], panic |-> FALSE]
             ELSE IF c.err # Nil THEN [r |-> Nil, err |-> c.err, panic |-> FALSE]
             ELSE IF NLt(spec.Weight, Zero) \/ NGt(spec.Weight, One)
             THEN [r |-> Nil, err |-> [type |-> "invalid rule weight", weight |-> Fmt2(spec.Weight)],
                   panic |-> FALSE]
             ELSE [r |-> Rule(c.conds,
                              RuleCondition(outputs[outputVarIdx + 1].Name,
                                            outputs[outputVarIdx + 1].MFs[outputSetIdx + 1].Name,
                                            FALSE),
                              spec.Weight, op),
                   err |-> Nil, panic |-> FALSE]

mapDefuzzMethod(fisMethod) ==
    IF fisMethod \in {"centroid", "bisector"} THEN DefuzzCOG
    ELSE IF fisMethod = "mom" THEN DefuzzMOM
    ELSE IF fisMethod \in {"som", "lom"} THEN DefuzzFOM
    ELSE DefuzzMOM

\* the objects the conversion allocates: the i-th variable of a section, the
\* rule of the i-th line
VarPtr(kind, i) == <<kind, i>>
RulePtr(i) == <<"rule", i>>

\* the two variable loops of ConvertToInferenceSystem, from the i-th section
\* on; acc holds the engine and the variable objects built so far
RECURSIVE ConvertVariables(_, _, _, _)
ConvertVariables(specs, kind, i, acc) ==
    IF i > Len(specs) THEN acc
    ELSE LET cv == convertVariable(specs[i])
             registered == IF kind = "input" THEN acc.fis.InputVariables
                           ELSE acc.fis.OutputVariables
         IN  IF cv.err # Nil
             THEN [acc EXCEPT !.err = [type |-> "error converting variable", kind |-> kind,
                                      index |-> i, cause |-> cv.err]]
             ELSE IF specs[i].Name \in DOMAIN registered
             THEN [acc EXCEPT !.err = [type |-> "error adding variable", kind |-> kind,
                                      index |-> i]]
             ELSE ConvertVariables(specs, kind, i + 1,
                      [acc EXCEPT !.heap = MapPut(acc.heap, VarPtr(kind, i), cv.v),
                                  !.fis = IF kind = "input"
                                          THEN [@ EXCEPT !.InputVariables =
                                                   MapPut(@, specs[i].Name, VarPtr(kind, i))]
                                          ELSE [@ EXCEPT !.OutputVariables =
                                                   MapPut(@, specs[i].Name, VarPtr(kind, i))]])

\* the rule loop of ConvertToInferenceSystem, from the i-th line on
RECURSIVE ConvertRules(_, _, _)
ConvertRules(model, i, acc) ==
    IF i > Len(model.Rules) THEN acc
    ELSE LET cr == convertRule(model.Rules[i], model.Inputs, model.Outputs)
         IN  IF cr.panic THEN [acc EXCEPT !.panic = TRUE]
             ELSE IF cr.err # Nil
             THEN [acc EXCEPT !.err = [type |-> "error converting rule", index |-> i,
                                      cause |-> cr.err]]
             ELSE IF AddRuleErr(acc.fis, acc.heap, cr.r) # Nil
             THEN [acc EXCEPT !.err = [type |-> "error adding rule", index |-> i,
                                      cause |-> AddRuleErr(acc.fis, acc.heap, cr.r)]]
             ELSE ConvertRules(model, i + 1,
                      [acc EXCEPT !.rheap = MapPut(acc.rheap, RulePtr(i), cr.r),
                                  !.fis.Rules = Append(@, RulePtr(i))])

\* the result is the pair (fis, err) of the Go function with the objects
\* the engine points to, or panic
ConvertToInferenceSystem(model) ==
    IF model.System.Type # "mamdani" /\ model.System.Type # ""
    THEN [fis |-> Nil, heap |-> <<>>, rheap |-> <<>>, panic |-> FALSE,
          err |-> [type |-> "only mamdani FIS supported", got |-> model.System.Type]]
    ELSE LET start == [fis |-> [NewMamdaniInferenceSystem EXCEPT
                                   !.DefuzzMethod = mapDefuzzMethod(model.System.DefuzzMethod)],
                       heap |-> <<>>, rheap |-> <<>>, panic |-> FALSE, err |-> Nil]
             ins == ConvertVariables(model.Inputs, "input", 1, start)
             outs == IF ins.err # Nil THEN ins
                     ELSE ConvertVariables(model.Outputs, "output", 1, ins)
         IN  IF outs.err # Nil THEN outs ELSE ConvertRules(model, 1, outs)

\* the sections of the models: T has a trapmf and a gaussmf with the
\* parameters g, U a trimf; F has two functions and G one
MFSpec(name, type, params) == [Name |-> name, Type |-> type, Params |-> params]

FISInputs(g) ==
    <<[Name |-> "T", Range |-> <<I(0), I(4)>>,
       MFs |-> <<MFSpec("Lo", "trapmf", <<I(-1), I(0), I(1), I(3)>>), MFSpec("Hi", "gaussmf", g)>>],
      [Name |-> "U", Range |-> <<I(0), I(2)>>,
       MFs |-> <<MFSpec("Lo", "trimf", <<I(-1), I(0), I(2)>>)>>]>>

FISOutputs ==
    <<[Name |-> "F", Range |-> <<I(0), I(4)>>,
       MFs |-> <<MFSpec("Lo", "trapmf", <<I(-1), I(0), I(1), I(3)>>),
                 MFSpec("Hi", "trimf", <<I(0), I(4), I(6)>>)>>],
      [Name |-> "G", Range |-> <<I(0), I(2)>>,
       MFs |-> <<MFSpec("Lo", "trimf", <<I(0), I(1), I(2)>>)>>]>>

RuleSpec(antecedents, consequents, weight, connection) ==
    [Antecedents |-> antecedents, Consequents |-> consequents, Weight |-> weight,
     Connection |-> connection]

\* rule lines: every pair of antecedent indices with the consequent 1, and
\* a few antecedent lists with every consequent list, weight and connection
Lines ==
    {RuleSpec(a, <<1>>, One, k) :
        a \in [1..2 -> -MaxIndex..MaxIndex] \cup {<<>>, <<1>>, <<1, 1, 1>>, <<1, 1, 0>>}, k \in {1, 2}}
    \cup {RuleSpec(a, c, w, k) :
            a \in {<<1, 0>>, <<-2, 1>>},
            c \in {<<>>, <<0>>, <<0, 0>>, <<2>>, <<3>>, <<-1>>, <<0, 1>>, <<0, 2>>, <<0, 0, 1>>,
                   <<1, 1>>},
            w \in {One, R(1, 2), R(3, 2)}, k \in {1, 2}}

\* the lines that follow the first one
TailLines ==
    {RuleSpec(<<-1, 1>>, <<2>>, R(1, 2), 2), RuleSpec(<<0, 0>>, <<1>>, One, 1),
     RuleSpec(<<1, 1>>, <<0, -1>>, One, 1)}

FISModels ==
    {[System |-> [Type |-> "mamdani", DefuzzMethod |-> "centroid"],
      Inputs |-> FISInputs(<<I(1), I(3)>>), Outputs |-> FISOutputs, Rules |-> <<l>> \o t] :
        l \in Lines, t \in SeqsUpTo(TailLines, MaxLines - 1)}
    \cup {[System |-> [Type |-> ty, DefuzzMethod |-> m],
           Inputs |-> FISInputs(g), Outputs |-> outs,
           Rules |-> <<RuleSpec(<<2, -1>>, <<1>>, One, 1)>>] :
            ty \in {"mamdani", "", "sugeno"}, m \in {"centroid", "som", "mom", ""},
            g \in {<<I(1), I(3)>>, <<I(0), I(3)>>, <<I(1), I(3), I(5)>>},
            outs \in {FISOutputs, <<>>}}

InitFIS ==
    /\ DefaultResolution = SourceResolution
    /\ varHeap = <<>>
    /\ ruleHeap = <<>>
    /\ fis = NewMamdaniInferenceSystem
    /\ arg \in FISModels
    /\ ret = [op |-> "none"]

\* fis, err := ConvertToInferenceSystem(model): on success the state holds the
\* engine and its objects
ConvertCall ==
    /\ ret.op = "none"
    /\ LET out == ConvertToInferenceSystem(arg)
       IN  /\ ret' = [op |-> "ConvertToInferenceSystem", err |-> out.err, panic |-> out.panic]
           /\ IF out.err = Nil /\ ~out.panic
              THEN fis' = out.fis /\ varHeap' = out.heap /\ ruleHeap' = out.rheap
              ELSE UNCHANGED <<fis, varHeap, ruleHeap>>
    /\ UNCHANGED <<DefaultResolution, arg>>

SpecFIS == InitFIS /\ [][ConvertCall]_vars

----------------------------------------------------------------------------
(* Properties                                                              *)

InUnit(v) == NGe(v, Zero) /\ NLe(v, One)
Clamp(v) == IF NLt(v, Zero) THEN Zero ELSE IF NGt(v, One) THEN One ELSE v
SetMin(S) == CHOOSE m \in S : \A v \in S : NLe(m, v)
SetMax(S) == CHOOSE m \in S : \A v \in S : NGe(m, v)
Range(q) == {q[i] : i \in 1..Len(q)}

\* minimum, maximum and complement as mathematics has them, with the engine's
\* convention for the empty sequence
OpOf(op, q) ==
    CASE op = "AND" -> IF q = <<>> THEN Zero ELSE SetMin(Range(q))
      [] op = "OR" -> IF q = <<>> THEN Zero ELSE SetMax(Range(q))
      [] op = "NOT" -> IF q = <<>> THEN One ELSE NSub(One, q[1])

\* C1: AddRule rejects a rule with no condition, with a consequent that is not
\* a set of a registered output variable, or with a condition that is not a
\* set of a registered input variable, and then leaves the engine and the
\* objects it points to as they were; every other rule is accepted and becomes
\* the last element of Rules, nothing else changing.
RuleInvalid(f, heap, r) ==
    \/ Len(r.Conditions) = 0
    \/ r.Output.Variable \notin DOMAIN f.OutputVariables
    \/ r.Output.Set \notin DOMAIN heap[f.OutputVariables[r.Output.Variable]].Sets
    \/ \E i \in 1..Len(r.Conditions) :
          \/ r.Conditions[i].Variable \notin DOMAIN f.InputVariables
          \/ r.Conditions[i].Set \notin
                DOMAIN heap[f.InputVariables[r.Conditions[i].Variable]].Sets

C1_AddRuleValidates ==
    [][ret'.op = "AddRule" =>
        IF RuleInvalid(fis, varHeap, ruleHeap[ret'.r])
        THEN ret'.err # Nil /\ fis' = fis /\ varHeap' = varHeap /\ ruleHeap' = ruleHeap
        ELSE /\ ret'.err = Nil
             /\ fis' = [fis EXCEPT !.Rules = Append(fis.Rules, ret'.r)]
             /\ fis'.Rules[Len(fis'.Rules)] = ret'.r
             /\ varHeap' = varHeap /\ ruleHeap' = ruleHeap]_vars

\* a rule was rejected for an input set that does not exist (yet), on an
\* engine that already holds an accepted rule
C1_Witness ==
    /\ ret.op = "AddRule"
    /\ ret.err.type = "non-existent input set"
    /\ Len(fis.Rules) >= 1

\* C6: on degrees in [0,1] AND.Apply is the minimum, OR.Apply the maximum and
\* NOT.Apply one minus the first value, without error; on no value at all
\* AND and OR give 0 and NOT gives 1.
C6_OperatorsOnDegrees ==
    (ret.op \in {"AND", "OR", "NOT"} /\ \A i \in 1..Len(arg) : InUnit(arg[i])) =>
        /\ ret.out.err = Nil
        /\ ret.out.val = OpOf(ret.op, arg)

\* AND over three distinct degrees, the smallest one last
C6_Witness ==
    /\ ret.op = "AND" /\ Len(arg) = 3
    /\ \A i \in 1..3 : InUnit(arg[i])
    /\ NLt(arg[3], arg[2]) /\ NLt(arg[2], arg[1])
    /\ ret.out.val = arg[3]

\* C7: when some value is outside [0,1], Apply returns the operator of the
\* clamped values, a result in [0,1], and an InvalidMembershipError carrying
\* the first out-of-range value from the left; when none is, the error is nil.
FirstOutOfRange(q) == q[CHOOSE i \in 1..Len(q) : ~InUnit(q[i]) /\ \A j \in 1..(i - 1) : InUnit(q[j])]

C7_OutOfRangeReported ==
    ret.op \in {"AND", "OR", "NOT"} =>
        IF \E i \in 1..Len(arg) : ~InUnit(arg[i])
        THEN /\ ret.out.val = OpOf(ret.op, [i \in 1..Len(arg) |-> Clamp(arg[i])])
             /\ InUnit(ret.out.val)
             /\ ret.out.err = InvalidMembershipError(FirstOutOfRange(arg))
        ELSE ret.out.err = Nil

\* C5: Evaluate fails on a rule without conditions; on a rule with conditions
\* and a membership map with degrees in [0,1] it returns, without error, the
\* rule's operator applied to v_1..v_n, times the weight, where v_i is the
\* degree found for condition i, one minus it if the condition is negated, and
\* 0 if the variable or the set has no entry (negated or not).
DegreesInUnit(mm) == \A v \in DOMAIN mm : \A n \in DOMAIN mm[v] : InUnit(mm[v][n])

CondValue(cond, mm) ==
    IF cond.Variable \notin DOMAIN mm THEN Zero
    ELSE IF cond.Set \notin DOMAIN mm[cond.Variable] THEN Zero
    ELSE IF cond.Negated THEN NSub(One, mm[cond.Variable][cond.Set])
    ELSE mm[cond.Variable][cond.Set]

C5_EvaluateFiringStrength ==
    ret.op = "Evaluate" =>
        LET r == arg.rule
            mm == arg.membershipMap
        IN  /\ Len(r.Conditions) = 0 => ret.out.err # Nil
            /\ (Len(r.Conditions) >= 1 /\ DegreesInUnit(mm)) =>
                  /\ ret.out.err = Nil
                  /\ ret.out.val =
                        NMul(OpOf(r.Operator,
                                  [i \in 1..Len(r.Conditions) |-> CondValue(r.Conditions[i], mm)]),
                             r.Weight)

\* an OR rule of weight 1/2 whose first condition is negated and has no entry
\* in the map, and whose second condition has degree 1/4
C5_Witness ==
    /\ ret.op = "Evaluate"
    /\ DegreesInUnit(arg.membershipMap)
    /\ arg.rule.Operator = "OR" /\ arg.rule.Weight = R(1, 2)
    /\ arg.rule.Conditions = <<RuleCondition("X", "Lo", TRUE), RuleCondition("T", "Lo", FALSE)>>
    /\ ret.out = [val |-> R(1, 8), err |-> Nil]

\* What Infer's arguments make of the engine: the firing strength of rule i
\* and the rules that target a set of an output variable
Firing(i) == RuleEvaluate(ruleHeap[fis.Rules[i]], InferFuzzify(fis, varHeap, ret.inputs)).val
Targeting(ov, os) ==
    {i \in 1..Len(fis.Rules) :
        ruleHeap[fis.Rules[i]].Output.Variable = ov /\ ruleHeap[fis.Rules[i]].Output.Set = os}
Targeted(ov) == {os \in DOMAIN varHeap[fis.OutputVariables[ov]].Sets : Targeting(ov, os) # {}}
Configured ==
    DOMAIN fis.InputVariables # {} /\ DOMAIN fis.OutputVariables # {} /\ Len(fis.Rules) > 0
MissingInputs == DOMAIN fis.InputVariables \ DOMAIN ret.inputs
OutOfBoundsInputs ==
    {n \in DOMAIN fis.InputVariables \cap DOMAIN ret.inputs :
        \/ NLt(ret.inputs[n], varHeap[fis.InputVariables[n]].MinValue)
        \/ NGt(ret.inputs[n], varHeap[fis.InputVariables[n]].MaxValue)}

\* C2: on a configured engine Infer fails, with no outputs, when an input
\* variable has no value (error "missing required input variable: Name" for
\* such a Name) or a value outside [min, max] (error "input value V for
\* variable 'Name' is out of bounds [min, max]", two decimals each, for such a
\* Name); a value equal to min or to max is never reported out of bounds.
C2_InputValidation ==
    (ret.op = "Infer" /\ Configured) =>
        /\ (MissingInputs \cup OutOfBoundsInputs # {}) =>
              /\ DOMAIN ret.out.results = {}
              /\ \/ \E n \in MissingInputs : ret.out.err = ErrMissingInput(n)
                 \/ \E n \in OutOfBoundsInputs :
                       ret.out.err =
                           [type |-> "input value %.2f for variable '%s' is out of bounds [%.2f, %.2f]",
                            value |-> Fmt2(ret.inputs[n]), varName |-> n,
                            min |-> Fmt2(varHeap[fis.InputVariables[n]].MinValue),
                            max |-> Fmt2(varHeap[fis.InputVariables[n]].MaxValue)]
        /\ \A n \in DOMAIN fis.InputVariables \cap DOMAIN ret.inputs :
              (\/ ret.inputs[n] = varHeap[fis.InputVariables[n]].MinValue
               \/ ret.inputs[n] = varHeap[fis.InputVariables[n]].MaxValue)
              => ~(/\ ret.out.err.type = "input value %.2f for variable '%s' is out of bounds [%.2f, %.2f]"
                   /\ ret.out.err.varName = n)

\* T sits on its upper bound and U is above its own: U is the one reported
C2_Witness ==
    /\ ret.op = "Infer" /\ Configured
    /\ DOMAIN ret.inputs = {"T", "U"}
    /\ ret.inputs["T"] = varHeap[fis.InputVariables["T"]].MaxValue
    /\ ret.out.err = [type |-> "input value %.2f for variable '%s' is out of bounds [%.2f, %.2f]",
                      value |-> 300, varName |-> "U", min |-> 0, max |-> 200]
    /\ DOMAIN ret.out.results = {}

\* the aggregation of Step 2 was built: the checks before it passed
Aggregated == ret.op = "Infer" /\ DOMAIN ret.out.outputMemberships # {}

\* Step 2 on the rules taken in the order p (a permutation of the indices)
AggregateInOrder(p) ==
    InferRules([fis EXCEPT !.Rules = [i \in 1..Len(p) |-> fis.Rules[p[i]]]], ruleHeap,
               InferFuzzify(fis, varHeap, ret.inputs), 1,
               [err |-> Nil, outputMemberships |-> [o \in DOMAIN fis.OutputVariables |-> <<>>]])

\* C3: the aggregated strength of every output set that some rule targets is
\* the maximum of the firing strengths of the rules targeting that variable
\* and set, whatever the order of the rules; a set no rule targets has no entry.
C3_MaxAggregation ==
    Aggregated =>
        \A ov \in DOMAIN fis.OutputVariables :
            /\ DOMAIN ret.out.outputMemberships[ov] = Targeted(ov)
            /\ \A os \in Targeted(ov) :
                  /\ ret.out.outputMemberships[ov][os] = SetMax({Firing(i) : i \in Targeting(ov, os)})
                  /\ \A p \in Perms(1..Len(fis.Rules)) :
                        /\ os \in DOMAIN AggregateInOrder(p).outputMemberships[ov]
                        /\ AggregateInOrder(p).outputMemberships[ov][os]
                              = ret.out.outputMemberships[ov][os]

\* two rules target the same set, the first one fires more strongly than the
\* second, and another set of the same variable is targeted by no rule
C3_Witness ==
    /\ Aggregated
    /\ Len(fis.Rules) = 2
    /\ Targeting("F", "Lo") = {1, 2}
    /\ NGt(Firing(1), Firing(2)) /\ NGt(Firing(2), Zero)
    /\ DOMAIN ret.out.outputMemberships["F"] = {"Lo"}

\* C4: when some output variable is targeted by no rule, or only by rules of
\* firing strength 0, Infer returns an error and the nil map, also when other
\* output variables have rules that fire.
Unsupported(ov) ==
    \A os \in DOMAIN varHeap[fis.OutputVariables[ov]].Sets :
        \A i \in Targeting(ov, os) : Firing(i) = Zero

C4_NoPartialResults ==
    (ret.op = "Infer" /\ \E ov \in DOMAIN fis.OutputVariables : Unsupported(ov)) =>
        ret.out.err # Nil /\ DOMAIN ret.out.results = {}

\* F has a rule that fires, G has none, and the call fails in defuzzification
C4_Witness ==
    /\ Aggregated
    /\ DOMAIN fis.OutputVariables = {"F", "G"}
    /\ ~Unsupported("F") /\ Unsupported("G")
    /\ ret.out.err.type = "defuzzification failed for variable"
    /\ DOMAIN ret.out.results = {}

\* The sampling scheme as the specification states it: the R+1 points
\* x_i = min + i*(max-min)/R and m(x) = the largest evaluation * strength
SamplePoint(ov, res, i) ==
    NAdd(ov.MinValue, NDiv(NMul(I(i), NSub(ov.MaxValue, ov.MinValue)), I(res)))
MAt(ov, A, x) == SetMax({NMul(FuzzySetEvaluate(ov.Sets[n], x), A[n]) : n \in DOMAIN A})

RECURSIVE Sigma(_, _)
Sigma(f, S) == IF S = {} THEN Zero
               ELSE LET i == CHOOSE j \in S : TRUE IN NAdd(f[i], Sigma(f, S \ {i}))

\* C8: the centroid over domain [min,max], resolution R and aggregation A is
\* (sum of x_i*m(x_i)) / (sum of m(x_i)) over the R+1 points x_i; it fails if A
\* is empty or the sum of m(x_i) is 0.
C8_Centroid ==
    (ret.op = "COG" /\ arg.resolution >= 1) =>
        LET ov == arg.outputVar
            A == arg.memberships
            xs == [i \in 0..arg.resolution |-> SamplePoint(ov, arg.resolution, i)]
            den == Sigma([i \in 0..arg.resolution |-> MAt(ov, A, xs[i])], 0..arg.resolution)
            num == Sigma([i \in 0..arg.resolution |-> NMul(xs[i], MAt(ov, A, xs[i]))],
                         0..arg.resolution)
        IN  IF DOMAIN A = {} THEN ret.out.err # Nil
            ELSE IF den = Zero THEN ret.out.err # Nil
            ELSE ret.out = [val |-> NDiv(num, den), err |-> Nil]

\* three sets of three different strengths at resolution 3, where the sample
\* points are not integers and the last one has a positive m
C8_Witness ==
    /\ ret.op = "COG" /\ arg.resolution = 3
    /\ arg.memberships = [A |-> R(1, 2), B |-> AlmostOne, C |-> One]
    /\ NGt(MAt(arg.outputVar, arg.memberships, arg.outputVar.MaxValue), Zero)
    /\ ret.out.err = Nil
    /\ NGt(ret.out.val, Zero) /\ NLt(ret.out.val, arg.outputVar.MaxValue)

\* C9: the mean of maximum is the arithmetic mean of exactly the sample points
\* whose m is within 1e-9 of the maximum of m over the R+1 samples; it fails
\* if that maximum is not positive or A is empty.
C9_MeanOfMaximum ==
    (ret.op = "MOM" /\ arg.resolution >= 1) =>
        LET ov == arg.outputVar
            A == arg.memberships
            xs == [i \in 0..arg.resolution |-> SamplePoint(ov, arg.resolution, i)]
            top == SetMax({MAt(ov, A, xs[i]) : i \in 0..arg.resolution})
            near == {i \in 0..arg.resolution : NLt(NAbs(NSub(MAt(ov, A, xs[i]), top)), epsilon)}
        IN  IF DOMAIN A = {} THEN ret.out.err # Nil
            ELSE IF ~NGt(top, Zero) THEN ret.out.err # Nil
            ELSE ret.out = [val |-> NDiv(Sigma(xs, near), I(Cardinality(near))), err |-> Nil]

\* C10: the first of maximum is the smallest sample point at which m attains
\* its maximum over the R+1 samples; it fails if A is empty or m is 0 at
\* every sample.
C10_FirstOfMaximum ==
    (ret.op = "FOM" /\ arg.resolution >= 1) =>
        LET ov == arg.outputVar
            A == arg.memberships
            xs == [i \in 0..arg.resolution |-> SamplePoint(ov, arg.resolution, i)]
            top == SetMax({MAt(ov, A, xs[i]) : i \in 0..arg.resolution})
            first == CHOOSE i \in 0..arg.resolution :
                        /\ MAt(ov, A, xs[i]) = top
                        /\ \A j \in 0..(i - 1) : MAt(ov, A, xs[j]) # top
        IN  IF DOMAIN A = {} THEN ret.out.err # Nil
            ELSE IF \A i \in 0..arg.resolution : MAt(ov, A, xs[i]) = Zero THEN ret.out.err # Nil
            ELSE ret.out = [val |-> xs[first], err |-> Nil]

\* the maximum is attained at two sample points, neither of them the first
\* sample, and a value just below it (within the tolerance) comes before
C10_Witness ==
    /\ ret.op = "FOM" /\ arg.resolution = 4
    /\ arg.memberships = [A |-> AlmostOne, B |-> One, C |-> R(1, 2)]
    /\ ret.out = [val |-> I(3), err |-> Nil]

\* C11: in every state reached by AddInputVariable, AddOutputVariable, AddSet,
\* AddRule, SetResolution and SetDefuzzificationMethod, every rule of Rules
\* has a condition, its consequent is a set of a registered output variable
\* and each of its conditions is a set of a registered input variable.
C11_RegisteredRulesValid ==
    \A i \in 1..Len(fis.Rules) : ~RuleInvalid(fis, varHeap, ruleHeap[fis.Rules[i]])

\* two rules are registered, the second one on sets added by AddSet after the
\* first was registered
C11_Witness ==
    /\ Len(fis.Rules) = 2
    /\ ruleHeap[fis.Rules[1]].Output.Set = "Lo"
    /\ ruleHeap[fis.Rules[2]].Output.Set = "Hi"
    /\ ret.op = "AddRule" /\ ret.err = Nil

\* the rule objects that AddRule would accept on engine f with variables heap
Acceptable(f, heap) == {r \in DOMAIN ruleHeap : ~RuleInvalid(f, heap, ruleHeap[r])}

\* C12: AddRule decides on the variables and sets as they are at the call,
\* whatever it answered for the same rule before; a step that adds a set
\* leaves Rules as it was, and every rule that was acceptable before the step,
\* the registered ones included, is acceptable after it.
C12_RevalidatedEachCall ==
    [][/\ ret'.op = "AddRule" =>
            /\ ret'.err = Nil <=> ~RuleInvalid(fis, varHeap, ruleHeap[ret'.r])
            /\ ret'.err = Nil <=> fis'.Rules = Append(fis.Rules, ret'.r)
       /\ ret'.op = "AddSet" =>
            /\ fis'.Rules = fis.Rules /\ ruleHeap' = ruleHeap
            /\ Acceptable(fis, varHeap) \subseteq Acceptable(fis', varHeap')
            /\ \A i \in 1..Len(fis'.Rules) : fis'.Rules[i] \in Acceptable(fis', varHeap')]_vars

\* AddRule has just accepted a rule that it rejects on the same engine with
\* the variables as constructed: the sets it names were added in between,
\* after another rule had been registered
C12_Witness ==
    /\ ret.op = "AddRule" /\ ret.err = Nil
    /\ Len(fis.Rules) = 2 /\ fis.Rules[2] = ret.r
    /\ ret.r \notin Acceptable(fis, VarPool)
    /\ fis.Rules[1] \in Acceptable(fis, VarPool)

\* the rules the engine evaluates: Infer reads the object behind each pointer
EngineRules(f, rheap) == [i \in 1..Len(f.Rules) |-> rheap[f.Rules[i]]]

\* C13: a rule registered with AddRule is immutable: no call of AddCondition,
\* AddConditionEx or SetWeight on the object the caller passed in changes the
\* conditions or the weight of a rule the engine evaluates.
C13_RegisteredRuleImmutable ==
    [][ret'.op \in {"AddConditionEx", "SetWeight"} =>
          EngineRules(fis', ruleHeap') = EngineRules(fis, ruleHeap)]_vars

\* C14: Infer fails, with no outputs, on an engine without input variable,
\* without output variable or without rule, and reports the first of these in
\* that order whatever the inputs are; on a configured engine it reports none
\* of them.
C14_ConfigurationChecksFirst ==
    ret.op = "Infer" =>
        IF DOMAIN fis.InputVariables = {}
        THEN ret.out.err = ErrNoInputVariables /\ DOMAIN ret.out.results = {}
        ELSE IF DOMAIN fis.OutputVariables = {}
        THEN ret.out.err = ErrNoOutputVariables /\ DOMAIN ret.out.results = {}
        ELSE IF Len(fis.Rules) = 0
        THEN ret.out.err = ErrNoRules /\ DOMAIN ret.out.results = {}
        ELSE ret.out.err \notin {ErrNoInputVariables, ErrNoOutputVariables, ErrNoRules}

\* an engine with input variables but neither output variable nor rule is
\* given an out-of-bounds value and no value for U: it reports the missing
\* output variable
C14_Witness ==
    /\ ret.op = "Infer"
    /\ DOMAIN fis.InputVariables = {"T", "U"}
    /\ DOMAIN fis.OutputVariables = {} /\ Len(fis.Rules) = 0
    /\ DOMAIN ret.inputs = {"T"} /\ ret.inputs["T"] = I(-1)
    /\ ret.out.err = ErrNoOutputVariables

\* the inner loop of the defuzzifiers, visiting the aggregation map in the
\* order given
RECURSIVE MaxInOrder(_, _, _, _, _, _)
MaxInOrder(outputVar, memberships, x, order, i, acc) ==
    IF i > Len(order) THEN acc
    ELSE MaxInOrder(outputVar, memberships, x, order, i + 1,
             IF order[i] \in DOMAIN outputVar.Sets
                /\ NGt(NMul(FuzzySetEvaluate(outputVar.Sets[order[i]], x), memberships[order[i]]), acc)
             THEN NMul(FuzzySetEvaluate(outputVar.Sets[order[i]], x), memberships[order[i]])
             ELSE acc)

\* the outcomes of Infer(inputs) on engine f with method m, over every order
\* in which the two variable maps can be visited
Outcomes(f, m, inputs) ==
    {[results |-> o.results, failed |-> o.err # Nil] :
        o \in {Infer([f EXCEPT !.DefuzzMethod = m], varHeap, ruleHeap, inputs, io, oo) :
                 io \in Perms(DOMAIN f.InputVariables), oo \in Perms(DOMAIN f.OutputVariables)}}

\* C15: a second Infer with the same inputs on the unchanged engine yields the
\* outputs of the first, for centroid, MOM and FOM, in whatever order the
\* variable maps and the aggregation maps are visited.
C15_InferRepeatable ==
    ret.op = "Infer" =>
        /\ Outcomes(fis, fis.DefuzzMethod, ret.inputs)
               = {[results |-> ret.out.results, failed |-> ret.out.err # Nil]}
        /\ \A m \in {DefuzzCOG, DefuzzMOM, DefuzzFOM} :
               Cardinality(Outcomes(fis, m, ret.inputs)) = 1
        /\ \A v \in DOMAIN ret.out.outputMemberships :
             \A i \in 0..fis.Resolution, order \in Perms(DOMAIN ret.out.outputMemberships[v]) :
               LET ov == varHeap[fis.OutputVariables[v]]
                   x == SampleX(ov, Step(ov, fis.Resolution), i)
               IN  MaxInOrder(ov, ret.out.outputMemberships[v], x, order, 1, Zero)
                       = currentMax(ov, ret.out.outputMemberships[v], x)

\* Infer succeeded on an engine with two input and two output variables,
\* each output with a rule of positive strength
C15_Witness ==
    /\ ret.op = "Infer" /\ ret.out.err = Nil
    /\ DOMAIN fis.InputVariables = {"T", "U"}
    /\ DOMAIN ret.out.results = {"F", "G"}
    /\ NGt(ret.out.outputMemberships["F"]["Lo"], Zero)
    /\ NGt(ret.out.outputMemberships["G"]["Lo"], Zero)
    /\ NGt(ret.out.results["F"], Zero) /\ NGt(ret.out.results["G"], Zero)

\* C16: on the temperature controller in its default configuration Infer
\* succeeds and FanSpeed is in [0,30] for Temperature 5, in [20,60] for 25 and
\* in [70,100] for 45.
C16_TemperatureControl ==
    (ret.op = "Infer" /\ fis = TempEngine) =>
        LET t == ret.inputs["Temperature"]
            within(lo, hi) == /\ ret.out.err = Nil
                              /\ DOMAIN ret.out.results = {"FanSpeed"}
                              /\ NGe(ret.out.results["FanSpeed"], I(lo))
                              /\ NLe(ret.out.results["FanSpeed"], I(hi))
        IN  /\ t = I(5) => within(0, 30)
            /\ t = I(25) => within(20, 60)
            /\ t = I(45) => within(70, 100)

\* Infer returned for Temperature 45 at resolution 1000, High alone firing
C16_Witness ==
    /\ ret.op = "Infer" /\ fis = TempEngine /\ fis.Resolution = SourceResolution
    /\ ret.inputs["Temperature"] = I(45)
    /\ ret.out.outputMemberships["FanSpeed"] = [Off |-> Zero, Low |-> Zero, High |-> R(3, 4)]
    /\ ret.out.err = Nil
    /\ NGt(ret.out.results["FanSpeed"], I(99))

\* C17: a rule whose weight was set through NewRule and SetWeight, evaluated
\* on a membership map with degrees in [0,1], has a firing strength in [0,1].
C17_FiringStrengthInUnit ==
    (ret.op = "Evaluate" /\ DegreesInUnit(arg)) => InUnit(ret.out.val)

\* C18: with the method "lom" or "som" Infer returns, for the same engine and
\* inputs, the outcome (outputs or failure) it returns with the method "fom".
C18_LomSomAliasFom ==
    /\ \A m \in {DefuzzLOM, DefuzzSOM} :
         Outcomes(fis, m, arg) = Outcomes(fis, DefuzzFOM, arg)
    /\ (ret.op = "Infer" /\ fis.DefuzzMethod \in {DefuzzLOM, DefuzzSOM}) =>
         Outcomes(fis, DefuzzFOM, ret.inputs)
             = {[results |-> ret.out.results, failed |-> ret.out.err # Nil]}

\* Infer succeeded with the method "lom" where mean of maximum and first of
\* maximum differ
C18_Witness ==
    /\ ret.op = "Infer" /\ fis.DefuzzMethod = DefuzzLOM
    /\ ret.out.err = Nil /\ DOMAIN ret.out.results # {}
    /\ Outcomes(fis, DefuzzMOM, ret.inputs) # Outcomes(fis, DefuzzFOM, ret.inputs)

\* the corners of a membership function
Corners(mf) == IF mf.kind = "Triangular" THEN {mf.A, mf.B, mf.C} ELSE {mf.A, mf.B, mf.C, mf.D}

\* every corner of every set of the aggregation is a sample of the resolution
OnSamples(outputVar, memberships, resolution) ==
    \A n \in DOMAIN memberships : \A c \in Corners(outputVar.Sets[n].MembershipFunc) :
        \E i \in 0..resolution : SampleX(outputVar, Step(outputVar, resolution), i) = c

\* C19: for triangular sets whose corners are samples of resolution R, shoulder
\* sets with the peak on the domain bound included, mean of maximum and first of
\* maximum give at resolution 2R what they give at resolution R.
C19_ResolutionDoubling ==
    (ret.op \in {"MOM", "FOM"} /\ OnSamples(arg.outputVar, arg.memberships, arg.resolution)) =>
        ret.twice = ret.at

\* C20: the engine NewMamdaniInferenceSystem returns, before any call on it,
\* has Center of Gravity ("centroid") as its defuzzification method.
C20_DefaultCentroid ==
    ret.op = "none" => fis.DefuzzMethod = DefuzzCOG

\* C21: a triangular function is 1 at its peak b and 0 at a foot that is not
\* the peak; a trapezoidal function is 1 everywhere on [b,c]; shoulder shapes
\* (a = b, b = c, c = d) included.
C21_PeakAndFeet ==
    ret.op = "Evaluate" =>
        IF arg.mf.kind = "Triangular"
        THEN /\ arg.x = arg.mf.B => ret.out = One
             /\ (arg.x \in {arg.mf.A, arg.mf.C} /\ arg.x # arg.mf.B) => ret.out = Zero
        ELSE (NGe(arg.x, arg.mf.B) /\ NLe(arg.x, arg.mf.C)) => ret.out = One

C23_SetsNeverRebound ==
    [][/\ \A v \in DOMAIN varHeap :
            /\ DOMAIN varHeap[v].Sets \subseteq DOMAIN varHeap'[v].Sets
            /\ \A n \in DOMAIN varHeap[v].Sets : varHeap'[v].Sets[n] = varHeap[v].Sets[n]
       /\ (ret'.op = "AddSet" /\ ret'.name \in DOMAIN varHeap[ret'.v].Sets) =>
            /\ ret'.err # Nil
            /\ varHeap' = varHeap
            /\ \A k \in -1..5 :
                  Fuzzify(varHeap'[ret'.v], I(k))[ret'.name]
                      = FuzzySetEvaluate(varHeap[ret'.v].Sets[ret'.name], I(k))
      ]_vars

\* AddSet refused a second set named Lo on T after Hi had been added to T
C23_Witness ==
    /\ ret.op = "AddSet" /\ ret.v = "vT" /\ ret.name = "Lo" /\ ret.err # Nil
    /\ DOMAIN varHeap["vT"].Sets = {"Lo", "Hi"}
    /\ varHeap["vT"].Sets["Lo"] = SetLoT

\* C24: when Infer succeeds, the value of every output variable lies in the
\* domain [MinValue, MaxValue] of that variable, for centroid, MOM and FOM at
\* every positive resolution.
C24_ResultInDomain ==
    (ret.op = "Infer" /\ ret.out.err = Nil) =>
        \A v \in DOMAIN ret.out.results :
            /\ NGe(ret.out.results[v], varHeap[fis.OutputVariables[v]].MinValue)
            /\ NLe(ret.out.results[v], varHeap[fis.OutputVariables[v]].MaxValue)

\* C25: no step of an Infer call writes the input variables, the output
\* variables, their sets, the rule list, the resolution or the
\* defuzzification method, and whatever the interleaving of the callers'
\* steps, a call that ends holds an outcome Infer gives when run alone on its
\* inputs
C25_InferReadsOnly ==
    [][/\ fis' = fis
       /\ varHeap' = varHeap
       /\ ruleHeap' = ruleHeap
       /\ DefaultResolution' = DefaultResolution
       /\ \A c \in 1..MaxCallers :
             ret'[c].pc = "done" =>
                \E inOrder \in Perms(DOMAIN fis.InputVariables),
                   outOrder \in Perms(DOMAIN fis.OutputVariables) :
                    ret'[c].out = Infer(fis, varHeap, ruleHeap, arg[c], inOrder, outOrder)]_vars

\* caller 1 has ended with results while caller 2, with other inputs, is
\* between Step 2 and Step 3
C25_Witness ==
    /\ ret[1].pc = "done"
    /\ ret[1].out.err = Nil
    /\ ret[2].pc = "step3"
    /\ arg[1] # arg[2]

\* C26: the failure of Infer depends on the inputs and the engine alone: the
\* error a call returns is the error of every other call with the same
\* inputs on the same engine, whatever the order in which the two map ranges
\* visit the variables
C26_FailureDeterministic ==
    ret.op = "Infer" =>
        \A inOrder \in Perms(DOMAIN fis.InputVariables),
           outOrder \in Perms(DOMAIN fis.OutputVariables) :
            Infer(fis, varHeap, ruleHeap, arg, inOrder, outOrder).err = ret.out.err

\* C27: no operation removes anything: every step of AddInputVariable,
\* AddOutputVariable, AddSet, AddRule, SetResolution, SetDefuzzificationMethod
\* and Infer keeps the registered input and output variables, keeps the rule
\* list as a prefix of the new one, leaves a non-empty rule list with at least
\* one input and one output variable, and leaves a configured engine configured
C27_NothingRemoved ==
    [][/\ \A n \in DOMAIN fis.InputVariables :
             n \in DOMAIN fis'.InputVariables /\ fis'.InputVariables[n] = fis.InputVariables[n]
       /\ \A n \in DOMAIN fis.OutputVariables :
             n \in DOMAIN fis'.OutputVariables /\ fis'.OutputVariables[n] = fis.OutputVariables[n]
       /\ Len(fis'.Rules) >= Len(fis.Rules)
       /\ SubSeq(fis'.Rules, 1, Len(fis.Rules)) = fis.Rules
       /\ Len(fis'.Rules) > 0 =>
             DOMAIN fis'.InputVariables # {} /\ DOMAIN fis'.OutputVariables # {}
       /\ (/\ DOMAIN fis.InputVariables # {}
           /\ DOMAIN fis.OutputVariables # {}
           /\ Len(fis.Rules) > 0) =>
             (/\ DOMAIN fis'.InputVariables # {}
              /\ DOMAIN fis'.OutputVariables # {}
              /\ Len(fis'.Rules) > 0)]_vars

\* a configured engine with MaxRules rules on which Infer has returned results
C27_Witness ==
    /\ Len(fis.Rules) = MaxRules
    /\ ret.op = "Infer"
    /\ ret.out.err = Nil

\* C28: Infer reports "no rules fired" for an output variable only when the
\* aggregation of that variable is empty or holds only strengths equal to 0;
\* with a positive strength for one of its sets the variable gets a value, at
\* every positive resolution
C28_NoRulesFiredOnlyWhenZero ==
    (/\ ret.op = "Infer"
     /\ ret.out.err.type = "defuzzification failed for variable"
     /\ ret.out.err.cause = ErrNoRulesFired) =>
        \A s \in DOMAIN ret.out.outputMemberships[ret.out.err.varName] :
            ret.out.outputMemberships[ret.out.err.varName][s] = Zero

\* the conditions a rule line asks for: for the i-th antecedent index k, none
\* when k = 0, else the condition on the |k|-th set of the i-th input,
\* negated when k < 0
RECURSIVE LineConditions(_, _, _)
LineConditions(line, inputs, i) ==
    IF i > Len(line.Antecedents) THEN <<>>
    ELSE (IF line.Antecedents[i] = 0 THEN <<>>
          ELSE <<RuleCondition(inputs[i].Name,
                               inputs[i].MFs[IF line.Antecedents[i] < 0 THEN -line.Antecedents[i]
                                             ELSE line.Antecedents[i]].Name,
                               line.Antecedents[i] < 0)>>)
         \o LineConditions(line, inputs, i + 1)

\* C29: a successful ConvertToInferenceSystem leaves one engine rule for each
\* rule line, in the order of the lines, with the conditions the antecedent
\* indices ask for (0: none, k > 0: the k-th set of the i-th input, k < 0: the
\* negation of the |k|-th set), the operator OR for connection 2 and AND for
\* connection 1, and the weight of the line; a gaussmf with the parameters
\* [width, center] is the Gaussian of that center and that width
C29_RuleLinesConverted ==
    (ret.op = "ConvertToInferenceSystem" /\ ret.err = Nil /\ ~ret.panic) =>
        /\ Len(fis.Rules) = Len(arg.Rules)
        /\ \A j \in 1..Len(arg.Rules) :
              /\ ruleHeap[fis.Rules[j]].Conditions = LineConditions(arg.Rules[j], arg.Inputs, 1)
              /\ arg.Rules[j].Connection = 2 => ruleHeap[fis.Rules[j]].Operator = "OR"
              /\ arg.Rules[j].Connection = 1 => ruleHeap[fis.Rules[j]].Operator = "AND"
              /\ ruleHeap[fis.Rules[j]].Weight = arg.Rules[j].Weight
        /\ \A i \in 1..Len(arg.Inputs) : \A j \in 1..Len(arg.Inputs[i].MFs) :
              arg.Inputs[i].MFs[j].Type = "gaussmf" =>
                 varHeap[fis.InputVariables[arg.Inputs[i].Name]].Sets[arg.Inputs[i].MFs[j].Name]
                        .MembershipFunc
                     = Gaussian(arg.Inputs[i].MFs[j].Params[2], arg.Inputs[i].MFs[j].Params[1])

\* a model of MaxLines lines is converted: its first line has a don't-care, its
\* second a negated antecedent, the connection 2 and the weight 1/2
C29_Witness ==
    /\ ret.op = "ConvertToInferenceSystem" /\ ret.err = Nil /\ ~ret.panic
    /\ Len(fis.Rules) = MaxLines
    /\ arg.Rules[1].Antecedents = <<1, 0>>
    /\ arg.Rules[2] = RuleSpec(<<-1, 1>>, <<2>>, R(1, 2), 2)
    /\ Len(ruleHeap[fis.Rules[1]].Conditions) = 1
    /\ ruleHeap[fis.Rules[2]].Conditions[1].Negated

\* the consequent a rule line names: the set of a positive index at some
\* position of the consequent list
NamedConsequents(line, outputs) ==
    {RuleCondition(outputs[p].Name, outputs[p].MFs[line.Consequents[p]].Name, FALSE) :
        p \in {q \in 1..Len(line.Consequents) :
                 /\ q <= Len(outputs)
                 /\ line.Consequents[q] >= 1
                 /\ line.Consequents[q] <= Len(outputs[q].MFs)}}

\* C30: ConvertToInferenceSystem never ends by an index out of range; a rule
\* line whose antecedent or first non-zero consequent index names no set of
\* its variable, whose consequent index is negative, whose consequents are all
\* zero or whose antecedents are all don't-care makes it return an error; and
\* every rule it registers has a consequent that its line names
C30_BadIndicesAreErrors ==
    ret.op = "ConvertToInferenceSystem" =>
        /\ ~ret.panic
        /\ (\E j \in 1..Len(arg.Rules) :
               \/ \A p \in 1..Len(arg.Rules[j].Consequents) : arg.Rules[j].Consequents[p] <= 0
               \/ \A i \in 1..Len(arg.Rules[j].Antecedents) : arg.Rules[j].Antecedents[i] = 0
               \/ \E i \in 1..Len(arg.Rules[j].Antecedents) :
                     /\ arg.Rules[j].Antecedents[i] # 0
                     /\ \/ i > Len(arg.Inputs)
                        \/ Abs(arg.Rules[j].Antecedents[i]) > Len(arg.Inputs[i].MFs))
              => ret.err # Nil
        /\ ret.err = Nil =>
              \A j \in 1..Len(fis.Rules) :
                  ruleHeap[fis.Rules[j]].Output \in NamedConsequents(arg.Rules[j], arg.Outputs)

====
